---- MODULE Spec2Model ----
(***************************************************************************)
(* Pintos user-process virtual memory: supplemental page table             *)
(* (vm/page.c), frame table and eviction (vm/frame.c) and the system-call  *)
(* validation / pinning protocol (userprog/syscall.c).                     *)
(*                                                                         *)
(* Every process is one kernel thread.  A thread's position is pc[p]; a    *)
(* step of the model is one lock-delimited piece of a function.  Page      *)
(* contents are abstracted to one value per page.                          *)
(***************************************************************************)
EXTENDS Integers, Sequences, FiniteSets, Bags, TLC

(* ----------------------------- bounds ---------------------------------- *)
NFrames == 3        \* frames the user pool can have
NSlots == 2         \* slots in the swap partition
MaxVal == 2         \* page contents are values 0..MaxVal, 0 = all zero bytes
MaxOps == 2         \* user-level operations a process may start

Procs == 1..2

(* ------------------------ program constants ---------------------------- *)
PGSIZE == 4096
NPages == 6
PHYS_BASE == NPages * PGSIZE
STACK_HEURISTIC == 32
MAX_STACK_SIZE == 2 * PGSIZE
CODE == 0
FILE == 1
MMAP == 2
NOTYPE == 3                     \* marks "no entry" (a NULL spt_entry pointer)
NULL == 0
BITMAP_ERROR == 0 - 1
NoThread == 0

\* identities of the four global locks, used in the acquisition log
PIN == 1
FT == 2
EVICT == 3
FILESYS == 4

Frames == 1..NFrames
Slots == 0..(NSlots - 1)
Vals == 0..MaxVal
PageNums == 0..(NPages - 1)
\* Pages an spt_entry's upage can name: the user pages and the first page
\* of kernel space, which starts at PHYS_BASE.
SptIdx == 0..NPages

\* The user stack pointer at system-call entry (f->esp); room for five words.
USER_ESP == PHYS_BASE - 20

\* The page of the executable's segment, registered at load time.
EXE_PAGE == 3

Min(S) == CHOOSE x \in S : \A y \in S : x <= y

pg_no(addr) == addr \div PGSIZE
pg_round_down(addr) == (addr \div PGSIZE) * PGSIZE
is_user_vaddr(addr) == addr >= 0 /\ addr < PHYS_BASE

\* Operations a specification may grant a process on top of MaxOps.
MoreOps == 1
NoneStarted == [p \in Procs |-> 0]

(* --------------------------- files ------------------------------------- *)
\* A struct file * is a number; the inode it is open on is its last two
\* digits, so file_reopen yields a different handle on the same inode.
ExeFile(p) == p
DataFile(p) == 10 + p
BigFile(p) == 20 + p
Inode(h) == h % 100
Inodes ==
  {ExeFile(p) : p \in Procs} \cup {DataFile(p) : p \in Procs} \cup
  {BigFile(p) : p \in Procs}
file_reopen(h, k) == Inode(h) + 100 * (k + MoreOps + 1)
\* Fault injection: executables that can be written.
DenyWriteNever(h) == FALSE

\* The executable of a running process is write-denied.
DenyWrite(h) == Inode(h) \in {ExeFile(p) : p \in Procs}
UNINIT == 0 - 7                 \* a field malloc left uninitialised

VARIABLES
  spt,               \* spt[p][n]: the spt_entry of process p for page n
  pagedir,           \* pagedir[p][n]: the hardware mapping of page n
  frame_table,       \* the FIFO list of frame_table_entry
  pool,              \* free frames of the user pool
  mem,               \* mem[f]: contents of frame f
  swap_used,         \* swap bitmap: slots in use
  swapdata,          \* swapdata[s]: contents of swap slot s
  filedata,          \* filedata[i][k]: contents of page k of inode i
  filelen,           \* filelen[i]: length in bytes of inode i
  pin_lock, frame_table_lock, evict_lock, file_lock,
  pc,                \* position of each thread
  loc,               \* local variables of each thread
  ops,               \* user-level operations started so far
  mmap_files,        \* t->mmap_files of each process
  panic,             \* "none", or why the kernel stopped
  lastw,             \* history: the value the owner last stored in a page
  acq,               \* history: <<held, acquired>> lock pairs seen so far
  evB                \* history: the contents a page had when it was swapped out

vars == <<spt, pagedir, frame_table, pool, mem, swap_used, swapdata, filedata,
          filelen, pin_lock, frame_table_lock, evict_lock, file_lock, pc, loc,
          ops, mmap_files, panic, lastw, acq, evB>>

(* ----------------------- records and helpers --------------------------- *)
NoSpte ==
  [type |-> NOTYPE, frame |-> NULL, pinned |-> FALSE, is_in_swap |-> FALSE,
   idx |-> BITMAP_ERROR, file |-> UNINIT, ofs |-> UNINIT, writable |-> FALSE,
   page_read_bytes |-> UNINIT]

\* create_spte: frame, is_in_swap, idx and pinned are set, nothing else.
create_spte ==
  [type |-> NOTYPE, frame |-> NULL, pinned |-> FALSE, is_in_swap |-> FALSE,
   idx |-> BITMAP_ERROR, file |-> UNINIT, ofs |-> UNINIT, writable |-> FALSE,
   page_read_bytes |-> UNINIT]

create_spte_code == [create_spte EXCEPT !.type = CODE]

\* One page of create_spte_file's loop.
create_spte_file(file, ofs, read_bytes, writable) ==
  [create_spte EXCEPT !.type = FILE, !.file = file, !.ofs = ofs,
                      !.page_read_bytes = read_bytes, !.writable = writable]

NoPte == [frame |-> NULL, writable |-> FALSE, dirty |-> FALSE, accessed |-> FALSE]

\* uvaddr_to_spt_entry: the entry of the page holding the address, if any.
Present(e) == e.type # NOTYPE
uvaddr_to_spt_entry(p, addr) ==
  IF addr >= 0 /\ pg_no(addr) \in SptIdx THEN spt[p][pg_no(addr)] ELSE NoSpte

RemoveAt(s, i) == SubSeq(s, 1, i - 1) \o SubSeq(s, i + 1, Len(s))

\* The locks thread p holds.
Held(p) ==
  (IF pin_lock = p THEN {PIN} ELSE {}) \cup
  (IF frame_table_lock = p THEN {FT} ELSE {}) \cup
  (IF evict_lock = p THEN {EVICT} ELSE {}) \cup
  (IF file_lock = p THEN {FILESYS} ELSE {})

\* Thread p is at position l of its code and the kernel has not panicked.
At(p, l) == panic = "none" /\ pc[p] = l

\* The log after thread p, holding the locks in `held`, acquires lock l.
Acquire(held, l) == acq \cup {<<h, l>> : h \in held}

\* The local variables of a thread that is in user mode.
LocInit ==
  [spte |-> 0, frame |-> NULL, ret |-> "user", ffret |-> "user",
   victim |-> 0, todo |-> <<>>, after |-> "user",
   fd |-> 0, buf |-> 0, size |-> 0,
   addr |-> 0, pin |-> FALSE, nwr |-> 0, acc |-> 0, wr |-> FALSE,
   fm_page |-> 0, fm_rb |-> 0, fm_file |-> 0, fm_first |-> 0,
   fm_freed |-> FALSE,
   fm_rollback |-> FALSE, \* history: create_spte_mmap met a conflict
   fm_pre |-> {},         \* history: the pages that had an entry before it
   vok |-> {},            \* history: pages whose validation has returned
   exit_esp |-> NULL,     \* the argument of exit
   status |-> UNINIT,     \* t->return_status
   rejected |-> FALSE,    \* history: valid_up turned an address down
   phase |-> 0,           \* history: the phase that returned the victim
   il_pre |-> <<>>,       \* history: the entry as install_load_* found it
   k |-> 0]               \* validate_string's position in the string

\* A store changes the contents of a page.
NextVal(v) == (v % MaxVal) + 1

TypeOK ==
  /\ pool \subseteq Frames
  /\ swap_used \subseteq Slots
  /\ panic \in STRING
  /\ \A f \in Frames : mem[f] \in Vals
  /\ \A p \in Procs : ops[p] \in (0 - MoreOps)..MaxOps
  /\ pin_lock \in Procs \cup {NoThread}
  /\ frame_table_lock \in Procs \cup {NoThread}
  /\ evict_lock \in Procs \cup {NoThread}
  /\ file_lock \in Procs \cup {NoThread}

\* The state after boot, the supplemental page tables apart: the user pool
\* holds nframes frames; a data file is one page long, a big file three.
\* The operation counter of process p starts at first[p] and stops at MaxOps.
InitMachine(nframes, first) ==
  /\ pagedir = [p \in Procs |-> [n \in PageNums |-> NoPte]]
  /\ frame_table = <<>>
  /\ pool = 1..nframes
  /\ mem = [f \in Frames |-> 0]
  /\ swap_used = {}
  /\ swapdata = [s \in Slots |-> 0]
  /\ filedata = [i \in Inodes |-> [k \in 0..2 |-> 1]]
  /\ filelen = [i \in Inodes |->
                  IF i \in {BigFile(p) : p \in Procs} THEN 3 * PGSIZE ELSE PGSIZE]
  /\ pin_lock = NoThread
  /\ frame_table_lock = NoThread
  /\ evict_lock = NoThread
  /\ file_lock = NoThread
  /\ pc = [p \in Procs |-> "user"]
  /\ loc = [p \in Procs |-> LocInit]
  /\ ops = [p \in Procs |-> first[p]]
  /\ mmap_files = [p \in Procs |-> <<>>]
  /\ panic = "none"
  /\ lastw = [p \in Procs |-> [n \in PageNums |-> UNINIT]]
  /\ acq = {}
  /\ evB = [p \in Procs |-> [n \in PageNums |-> UNINIT]]

\* The state after boot and after the processes' executables were
\* registered by load's create_spte_file calls: the executable of process p
\* has the pages of segs[p] (page -> writable flag and file offset).
InitWith(segs, nframes, first) ==
  /\ spt = [p \in Procs |-> [n \in SptIdx |->
              IF n \in DOMAIN segs[p]
                THEN create_spte_file(ExeFile(p), segs[p][n].ofs, PGSIZE,
                                      segs[p][n].writable)
                ELSE NoSpte]]
  /\ InitMachine(nframes, first)

\* A segment page of an executable: the file offset it is read from.
Seg(w, ofs) == [writable |-> w, ofs |-> ofs]

\* A writable data page below a read-only code page.
SegBoth == ((EXE_PAGE - 1) :> Seg(TRUE, 0)) @@ (EXE_PAGE :> Seg(FALSE, 0))
\* A writable page, below it a page the program header places beyond the
\* end of the file.
SegShort == ((EXE_PAGE - 1) :> Seg(FALSE, PGSIZE)) @@ (EXE_PAGE :> Seg(TRUE, 0))

(* ------------------------- write-back ---------------------------------- *)
\* write_to_disk (spte), run by thread cur on the entry e of page n.  The
\* dirty bit consulted and the bytes written are those of the CURRENT
\* thread's page directory at spte->upage.  pd and fdat are the page
\* directories and file contents so far; locked tells whether file_lock was
\* taken.
write_to_disk(cur, e, n, pd, fdat) ==
  IF pd[cur][n].dirty
    THEN LET written == IF DenyWrite(e.file) THEN 0 ELSE e.page_read_bytes
         IN  [ok |-> written = e.page_read_bytes,
              pd |-> IF written > 0
                       THEN [pd EXCEPT ![cur][n].accessed = TRUE] ELSE pd,
              fdat |-> IF written > 0
                         THEN [fdat EXCEPT ![Inode(e.file)][e.ofs \div PGSIZE] =
                                             mem[pd[cur][n].frame]]
                         ELSE fdat,
              locked |-> TRUE]
    ELSE [ok |-> TRUE, pd |-> pd, fdat |-> fdat, locked |-> FALSE]

(* ----------------------- victim selection ------------------------------ *)
\* Fault injection: a scanner that ignores the pinned flag.
SkipNothing(e) == FALSE

\* The scanner passes over the frames of pinned entries.
Skip(e) == e.pinned

Phase1Victim(e, is_dirty, is_accessed) ==
  IF e.type # CODE THEN ~is_dirty /\ ~is_accessed
                   ELSE ~is_dirty /\ ~is_accessed

Phase2Victim(e, is_dirty, is_accessed) ==
  (~is_dirty \/ e.type = CODE) /\ ~is_accessed

\* Phase 1 of get_victim_frame from list position i on, run by thread cur.
RECURSIVE Phase1(_, _, _, _, _)
Phase1(cur, i, pd, fdat, locked) ==
  IF i > Len(frame_table)
    THEN [victim |-> 0, pd |-> pd, fdat |-> fdat, locked |-> locked]
    ELSE LET fte == frame_table[i]
             e == spt[fte.owner][fte.page]
             is_dirty == pd[fte.owner][fte.page].dirty
             is_accessed == pd[fte.owner][fte.page].accessed
         IN  IF Skip(e) THEN Phase1(cur, i + 1, pd, fdat, locked)
             ELSE IF e.type # CODE /\ is_dirty
               THEN LET w == write_to_disk(cur, e, fte.page, pd, fdat)
                        pd2 == IF w.ok
                                 THEN [w.pd EXCEPT ![fte.owner][fte.page].dirty = FALSE]
                                 ELSE w.pd
                    IN  Phase1(cur, i + 1, pd2, w.fdat, locked \/ w.locked)
             ELSE IF Phase1Victim(e, is_dirty, is_accessed)
               THEN [victim |-> i, pd |-> pd, fdat |-> fdat, locked |-> locked]
             ELSE Phase1(cur, i + 1, pd, fdat, locked)

\* Phase 2 from list position i on.
RECURSIVE Phase2(_, _)
Phase2(i, pd) ==
  IF i > Len(frame_table)
    THEN [victim |-> 0, pd |-> pd]
    ELSE LET fte == frame_table[i]
             e == spt[fte.owner][fte.page]
             is_dirty == pd[fte.owner][fte.page].dirty
             is_accessed == pd[fte.owner][fte.page].accessed
         IN  IF Skip(e) THEN Phase2(i + 1, pd)
             ELSE IF Phase2Victim(e, is_dirty, is_accessed)
               THEN [victim |-> i, pd |-> pd]
             ELSE Phase2(i + 1, [pd EXCEPT ![fte.owner][fte.page].accessed = FALSE])

\* Fault injection: a fallback that returns the last frame not passed over.
Phase3Last ==
  LET ok == {i \in 1..Len(frame_table) :
               ~Skip(spt[frame_table[i].owner][frame_table[i].page])}
  IN  IF ok = {} THEN 0 ELSE CHOOSE i \in ok : \A j \in ok : j <= i

\* Phase 3: the first frame in FIFO order that is not passed over, 0 if none.
Phase3 ==
  LET ok == {i \in 1..Len(frame_table) :
               ~Skip(spt[frame_table[i].owner][frame_table[i].page])}
  IN  IF ok = {} THEN 0 ELSE Min(ok)

(* --------------------------- swap -------------------------------------- *)
swap_out_slot == IF Slots \ swap_used = {} THEN BITMAP_ERROR
                                            ELSE Min(Slots \ swap_used)
\* What swap_in copies into the frame from slot s.
swap_in_data(s) == swapdata[s]

(* ------------------- install_load_page and frame_alloc ----------------- *)
\* A lock can be taken by a thread when no thread holds it.
CanTake(l) == l = NoThread

\* palloc_get_page (flags) from a pool of free frames: lowest free frame.
palloc_get_page(free) == IF free = {} THEN NULL ELSE Min(free)

\* Fault injection: install_load_* without waiting for evict_lock.
EvictLockIgnored == TRUE

\* lock_acquire (&evict_lock) at the head of install_load_* can proceed.
EvictLockFree == CanTake(evict_lock)

\* Page, type, is_in_swap and idx of entry n of process p.
LoadState(p, n) ==
  <<n, spt[p][n].type, spt[p][n].is_in_swap, spt[p][n].idx>>

\* install_load_file / install_load_swap up to the first palloc_get_page.
IlLock(p) ==
  /\ At(p, "il_lock")
  /\ EvictLockFree
  /\ evict_lock' = p
  /\ acq' = Acquire(Held(p), EVICT)
  /\ LET f == palloc_get_page(pool) IN
       IF f # NULL
         THEN /\ pool' = pool \ {f}
              /\ mem' = IF spt[p][loc[p].spte].type = CODE
                          THEN [mem EXCEPT ![f] = 0] ELSE mem
              /\ loc' = [loc EXCEPT ![p].frame = f,
                                    ![p].il_pre = LoadState(p, loc[p].spte)]
              /\ pc' = [pc EXCEPT ![p] = "aft"]
         ELSE /\ pc' = [pc EXCEPT ![p] = "fa_pin"]
              /\ loc' = [loc EXCEPT ![p].il_pre = LoadState(p, loc[p].spte)]
              /\ UNCHANGED <<pool, mem>>
  /\ UNCHANGED <<spt, pagedir, frame_table, swap_used, swapdata, filedata,
                 filelen, pin_lock, frame_table_lock, file_lock, ops,
                 mmap_files, panic, lastw, evB>>

\* Fault injection: frame_alloc taking its two locks the other way round.
FrameAllocReversed == <<FT, PIN>>

\* The two locks frame_alloc takes on exhaustion, in the order it takes them.
FrameAllocOrder == <<PIN, FT>>

\* The holder of lock l, for the two locks of frame_alloc.
Holder(l) == IF l = PIN THEN pin_lock ELSE frame_table_lock

\* frame_alloc: the first lock_acquire, lock_acquire (&pin_lock).
FaPin(p) ==
  /\ At(p, "fa_pin")
  /\ LET l == FrameAllocOrder[1] IN
       /\ CanTake(Holder(l))
       /\ pin_lock' = IF l = PIN THEN p ELSE pin_lock
       /\ frame_table_lock' = IF l = FT THEN p ELSE frame_table_lock
       /\ acq' = Acquire(Held(p), l)
  /\ pc' = [pc EXCEPT ![p] = "fa_ftl"]
  /\ UNCHANGED <<spt, pagedir, frame_table, pool, mem, swap_used, swapdata,
                 filedata, filelen, evict_lock, file_lock,
                 loc, ops, mmap_files, panic, lastw, evB>>

\* frame_alloc: the second lock_acquire, lock_acquire (&frame_table_lock).
FaFtl(p) ==
  /\ At(p, "fa_ftl")
  /\ LET l == FrameAllocOrder[2] IN
       /\ CanTake(Holder(l))
       /\ pin_lock' = IF l = PIN THEN p ELSE pin_lock
       /\ frame_table_lock' = IF l = FT THEN p ELSE frame_table_lock
       /\ acq' = Acquire(Held(p), l)
  /\ pc' = [pc EXCEPT ![p] = "gv1"]
  /\ UNCHANGED <<spt, pagedir, frame_table, pool, mem, swap_used, swapdata,
                 filedata, filelen, evict_lock, file_lock,
                 loc, ops, mmap_files, panic, lastw, evB>>

\* frame_alloc's loop head and phase 1 of get_victim_frame.
Gv1(p) ==
  /\ At(p, "gv1")
  /\ IF frame_table = <<>>
       THEN /\ panic' = "ft_empty"
            /\ UNCHANGED <<pagedir, filedata, acq, loc, pc>>
       ELSE LET r == Phase1(p, 1, pagedir, filedata, FALSE) IN
            /\ r.locked => CanTake(file_lock)
            /\ pagedir' = r.pd
            /\ filedata' = r.fdat
            /\ acq' = IF r.locked THEN Acquire(Held(p), FILESYS) ELSE acq
            /\ loc' = [loc EXCEPT ![p].victim = r.victim,
                                  ![p].phase = IF r.victim # 0 THEN 1 ELSE 0]
            /\ pc' = [pc EXCEPT ![p] = IF r.victim # 0 THEN "ev1" ELSE "gv2"]
            /\ UNCHANGED panic
  /\ UNCHANGED <<spt, frame_table, pool, mem, swap_used, swapdata, filelen,
                 pin_lock, frame_table_lock, evict_lock, file_lock, ops,
                 mmap_files, lastw, evB>>

\* Phases 2 and 3 of get_victim_frame, and ASSERT (fte != NULL).
Gv2(p) ==
  /\ At(p, "gv2")
  /\ LET r == Phase2(1, pagedir)
         v == IF r.victim # 0 THEN r.victim ELSE Phase3
     IN  /\ pagedir' = r.pd
         /\ IF v = 0
              THEN /\ panic' = "no_victim"
                   /\ UNCHANGED <<loc, pc>>
              ELSE /\ loc' = [loc EXCEPT ![p].victim = v,
                                         ![p].phase = IF r.victim # 0 THEN 2
                                                                      ELSE 3]
                   /\ pc' = [pc EXCEPT ![p] = "ev1"]
                   /\ UNCHANGED panic
  /\ UNCHANGED <<spt, frame_table, pool, mem, swap_used, swapdata, filedata,
                 filelen, pin_lock, frame_table_lock, evict_lock, file_lock,
                 ops, mmap_files, lastw, acq, evB>>

\* evict_frame up to and including the write-back or the copy to swap.
Ev1(p) ==
  /\ At(p, "ev1")
  /\ LET fte == frame_table[loc[p].victim]
         o == fte.owner
         n == fte.page
         e == spt[o][n]
     IN  IF e.frame = NULL
           THEN /\ panic' = "assert_frame"
                /\ UNCHANGED <<spt, pagedir, swap_used, swapdata, filedata,
                               acq, evB, pc>>
         ELSE IF e.type = MMAP
           THEN LET w == IF pagedir[o][n].dirty
                           THEN write_to_disk(p, e, n, pagedir, filedata)
                           ELSE [ok |-> TRUE, pd |-> pagedir,
                                 fdat |-> filedata, locked |-> FALSE]
                IN  /\ w.locked => CanTake(file_lock)
                    /\ acq' = IF w.locked THEN Acquire(Held(p), FILESYS) ELSE acq
                    /\ pagedir' = w.pd
                    /\ filedata' = w.fdat
                    /\ IF w.ok THEN /\ pc' = [pc EXCEPT ![p] = "ev2"]
                                    /\ UNCHANGED panic
                               ELSE /\ panic' = "write_out"
                                    /\ UNCHANGED pc
                    /\ UNCHANGED <<spt, swap_used, swapdata, evB>>
         ELSE LET s == swap_out_slot IN
              IF s = BITMAP_ERROR
                THEN /\ panic' = "swap_full"
                     /\ spt' = [spt EXCEPT ![o][n].type = CODE]
                     /\ UNCHANGED <<pagedir, swap_used, swapdata, filedata,
                                    acq, evB, pc>>
                ELSE /\ swap_used' = swap_used \cup {s}
                     /\ swapdata' = [swapdata EXCEPT ![s] = mem[e.frame]]
                     /\ spt' = [spt EXCEPT ![o][n].type = CODE,
                                           ![o][n].idx = s,
                                           ![o][n].is_in_swap = TRUE]
                     /\ evB' = [evB EXCEPT ![o][n] = mem[e.frame]]
                     /\ pc' = [pc EXCEPT ![p] = "ev2"]
                     /\ UNCHANGED <<pagedir, filedata, acq, panic>>
  /\ UNCHANGED <<frame_table, pool, mem, filelen, pin_lock, frame_table_lock,
                 evict_lock, file_lock, loc, ops, mmap_files, lastw>>

\* evict_frame: spte->frame = NULL, the statement before clear_frame_entry.
Ev2(p) ==
  /\ At(p, "ev2")
  /\ LET fte == frame_table[loc[p].victim]
     IN  spt' = [spt EXCEPT ![fte.owner][fte.page].frame = NULL]
  /\ pc' = [pc EXCEPT ![p] = "ev3"]
  /\ UNCHANGED <<pagedir, frame_table, pool, mem, swap_used, swapdata,
                 filedata, filelen, pin_lock, frame_table_lock, evict_lock,
                 file_lock, loc, ops, mmap_files, panic, lastw, acq, evB>>

\* clear_frame_entry (list_remove, pagedir_clear_page, palloc_free_page),
\* which runs under frame_table_lock, then frame_alloc's palloc_get_page
\* retry and the two lock releases.
Ev3(p) ==
  /\ At(p, "ev3")
  /\ LET fte == frame_table[loc[p].victim]
         o == fte.owner
         n == fte.page
         free == pool \cup {fte.frame}
         f == palloc_get_page(free)
     IN  IF fte.frame \in pool
           THEN /\ panic' = "double_free"
                /\ UNCHANGED <<frame_table, pagedir, pool, mem, loc, pc,
                               pin_lock, frame_table_lock>>
           ELSE \* clear_frame_entry reads fte->spte->upage; when the owner
                \* has freed the spte meanwhile the read is undefined: the
                \* block still holds the old address, or it holds free's
                \* fill bytes and pagedir_clear_page's assertion fails.
                \/ /\ ~Present(spt[o][n])
                   /\ panic' = "freed_spte"
                   /\ UNCHANGED <<frame_table, pagedir, pool, mem, loc, pc,
                                  pin_lock, frame_table_lock>>
                \/ /\ frame_table' = RemoveAt(frame_table, loc[p].victim)
                   /\ pagedir' = [pagedir EXCEPT ![o][n] = NoPte]
                   /\ pool' = free \ {f}
                   /\ mem' = [mem EXCEPT ![fte.frame] = 0]
                   /\ loc' = [loc EXCEPT ![p].frame = f, ![p].victim = 0]
                   /\ frame_table_lock' = NoThread
                   /\ pin_lock' = NoThread
                   /\ pc' = [pc EXCEPT ![p] = "aft"]
                   /\ UNCHANGED panic
  /\ UNCHANGED <<spt, swap_used, swapdata, filedata, filelen, evict_lock,
                 file_lock, ops, mmap_files, lastw, acq, evB>>

\* get_frame_for_page: add_to_frame_table (frame, spte).
Aft(p) ==
  /\ At(p, "aft")
  /\ CanTake(frame_table_lock)
  /\ acq' = Acquire(Held(p), FT)
  /\ frame_table' = Append(frame_table,
        [frame |-> loc[p].frame, owner |-> p, page |-> loc[p].spte])
  /\ loc' = [loc EXCEPT ![p].phase = 0]
  /\ pc' = [pc EXCEPT ![p] = "il_fin"]
  /\ UNCHANGED <<spt, pagedir, pool, mem, swap_used, swapdata, filedata,
                 filelen, pin_lock, frame_table_lock, evict_lock, file_lock,
                 ops, mmap_files, panic, lastw, evB>>

\* Fault injection: install_load_swap that never calls swap_in.
NeedsSwapInNever(e) == FALSE

\* install_load_swap's test `if (spte->is_in_swap)` around swap_in.
NeedsSwapIn(e) == e.is_in_swap

\* What install_load_file's file_read leaves in the frame, for entry e.
file_page(e) ==
  IF e.page_read_bytes > 0 THEN filedata[Inode(e.file)][e.ofs \div PGSIZE] ELSE 0

\* Bytes file_read returns for entry e.
file_read_bytes(e) ==
  LET avail == filelen[Inode(e.file)] - e.ofs
  IN  IF avail <= 0 THEN 0
      ELSE IF avail < e.page_read_bytes THEN avail ELSE e.page_read_bytes

\* The rest of install_load_file / install_load_swap: fill the frame,
\* install_page, spte->frame = frame, release evict_lock.  install_page on
\* a upage that is not a user address fails the page directory's assertion;
\* install_load_file's lock_acquire (&file_lock) fails its assertion when
\* the thread faulted while it held file_lock.
IlFin(p) ==
  /\ At(p, "il_fin")
  /\ IF loc[p].spte \notin PageNums
       THEN /\ panic' = "kernel_upage"
            /\ UNCHANGED <<spt, pagedir, mem, swap_used, evict_lock, loc,
                           pc, acq>>
       ELSE IF spt[p][loc[p].spte].type \in {FILE, MMAP} /\ file_lock = p
       THEN /\ panic' = "lock_held"
            /\ UNCHANGED <<spt, pagedir, mem, swap_used, evict_lock, loc,
                           pc, acq>>
       ELSE /\ UNCHANGED panic
            /\ LET n == loc[p].spte
                   e == spt[p][n]
                   f == loc[p].frame
                   isfile == e.type \in {FILE, MMAP}
                   fail == \/ (isfile /\ file_read_bytes(e) # e.page_read_bytes)
                           \/ pagedir[p][n].frame # NULL
               IN  /\ isfile => CanTake(file_lock)
                   /\ acq' = IF isfile THEN Acquire(Held(p), FILESYS) ELSE acq
                   /\ IF fail
                        THEN /\ loc' = [loc EXCEPT ![p].ffret = "il_fail"]
                             /\ pc' = [pc EXCEPT ![p] = "ff_rm"]
                             /\ UNCHANGED <<spt, pagedir, mem, swap_used, evict_lock>>
                        ELSE /\ pagedir' = [pagedir EXCEPT ![p][n] =
                                    [frame |-> f,
                                     writable |-> IF isfile THEN e.writable ELSE TRUE,
                                     dirty |-> FALSE, accessed |-> FALSE]]
                             /\ mem' = [mem EXCEPT ![f] =
                                    IF isfile THEN file_page(e)
                                    ELSE IF NeedsSwapIn(e) THEN swap_in_data(e.idx)
                                    ELSE mem[f]]
                             /\ spt' = [spt EXCEPT ![p][n].frame = f,
                                                   ![p][n].is_in_swap =
                                                      IF ~isfile /\ NeedsSwapIn(e)
                                                        THEN FALSE ELSE e.is_in_swap,
                                                   ![p][n].idx =
                                                      IF ~isfile /\ NeedsSwapIn(e)
                                                        THEN BITMAP_ERROR ELSE e.idx]
                             /\ swap_used' = IF ~isfile /\ NeedsSwapIn(e)
                                               THEN swap_used \ {e.idx} ELSE swap_used
                             /\ evict_lock' = NoThread
                             /\ loc' = [loc EXCEPT ![p].frame = NULL, ![p].spte = 0,
                                                ![p].il_pre = <<>>,
                                                ![p].vok = IF loc[p].ret = "vu" THEN @ \cup {n}
                                                           ELSE @]
                             /\ pc' = [pc EXCEPT ![p] = loc[p].ret]
  /\ UNCHANGED <<frame_table, pool, swapdata, filedata, filelen, pin_lock,
                 frame_table_lock, file_lock, ops, mmap_files, lastw,
                 evB>>

\* install_load_*: lock_release (&evict_lock); return false.  Every caller
\* (valid_up, the fault handler) then terminates the process.
IlFail(p) ==
  /\ At(p, "il_fail")
  /\ evict_lock' = NoThread
  /\ loc' = [loc EXCEPT ![p].frame = NULL, ![p].spte = 0]
  /\ pc' = [pc EXCEPT ![p] = "exit"]
  /\ UNCHANGED <<spt, pagedir, frame_table, pool, mem, swap_used, swapdata,
                 filedata, filelen, pin_lock, frame_table_lock, file_lock,
                 ops, mmap_files, panic, lastw, acq, evB>>

(* ----------------------------- free_frame ------------------------------ *)
\* Position in the frame table of the first entry whose frame is f, 0 if none.
FteOfFrame(f) ==
  LET hit == {i \in 1..Len(frame_table) : frame_table[i].frame = f}
  IN  IF hit = {} THEN 0 ELSE Min(hit)

\* free_frame (frame): the list walk under frame_table_lock.
FfRm(p) ==
  /\ At(p, "ff_rm")
  /\ CanTake(frame_table_lock)
  /\ acq' = Acquire(Held(p), FT)
  /\ LET i == FteOfFrame(loc[p].frame) IN
       frame_table' = IF i = 0 THEN frame_table ELSE RemoveAt(frame_table, i)
  /\ pc' = [pc EXCEPT ![p] = "ff_pf"]
  /\ UNCHANGED <<spt, pagedir, pool, mem, swap_used, swapdata, filedata,
                 filelen, pin_lock, frame_table_lock, evict_lock, file_lock,
                 loc, ops, mmap_files, panic, lastw, evB>>

\* free_frame (frame): palloc_free_page (frame).
FfPf(p) ==
  /\ At(p, "ff_pf")
  /\ LET f == loc[p].frame IN
       IF f = NULL
         THEN /\ pc' = [pc EXCEPT ![p] = loc[p].ffret]
              /\ UNCHANGED <<pool, mem, panic>>
       ELSE IF f \in pool
         THEN /\ panic' = "double_free"
              /\ UNCHANGED <<pool, mem, pc>>
       ELSE /\ pool' = pool \cup {f}
            /\ mem' = [mem EXCEPT ![f] = 0]
            /\ pc' = [pc EXCEPT ![p] = loc[p].ffret]
            /\ UNCHANGED panic
  /\ UNCHANGED <<spt, pagedir, frame_table, swap_used, swapdata, filedata,
                 filelen, pin_lock, frame_table_lock, evict_lock, file_lock,
                 loc, ops, mmap_files, lastw, acq, evB>>

(* ------------------------------ free_spte ------------------------------ *)
\* free_spte writes back an entry that is MMAP, or FILE and writable.
WritesBack(e) == e.type = MMAP \/ (e.type = FILE /\ e.writable)

\* free_spte on a resident entry: write_to_disk, pagedir_clear_page, and the
\* read of spte->frame that is handed to free_frame.
FsWb(p) ==
  /\ At(p, "fs_wb")
  /\ LET n == loc[p].spte
         e == spt[p][n]
         w == IF WritesBack(e)
                THEN write_to_disk(p, e, n, pagedir, filedata)
                ELSE [ok |-> TRUE, pd |-> pagedir, fdat |-> filedata,
                      locked |-> FALSE]
     IN  /\ w.locked => CanTake(file_lock)
         /\ acq' = IF w.locked THEN Acquire(Held(p), FILESYS) ELSE acq
         /\ filedata' = w.fdat
         /\ pagedir' = [w.pd EXCEPT ![p][n] = NoPte]
         /\ loc' = [loc EXCEPT ![p].frame = e.frame, ![p].ffret = "fs_del"]
         /\ pc' = [pc EXCEPT ![p] = "ff_rm"]
  /\ UNCHANGED <<spt, frame_table, pool, mem, swap_used, swapdata, filelen,
                 pin_lock, frame_table_lock, evict_lock, file_lock, ops,
                 mmap_files, panic, lastw, evB>>

\* free_spte: hash_delete and free (spte).
FsDel(p) ==
  /\ At(p, "fs_del")
  /\ spt' = [spt EXCEPT ![p][loc[p].spte] = NoSpte]
  /\ lastw' = [lastw EXCEPT ![p][loc[p].spte] = UNINIT]
  /\ evB' = [evB EXCEPT ![p][loc[p].spte] = UNINIT]
  /\ loc' = [loc EXCEPT ![p].frame = NULL, ![p].spte = 0]
  /\ pc' = [pc EXCEPT ![p] = loc[p].ret]
  /\ UNCHANGED <<pagedir, frame_table, pool, mem, swap_used, swapdata,
                 filedata, filelen, pin_lock, frame_table_lock, evict_lock,
                 file_lock, ops, mmap_files, panic, acq>>

(* ------------------------ destroy_spt and exit ------------------------- *)
SptPages(p) == {n \in SptIdx : Present(spt[p][n])}

\* Whether t->files of process p holds an open file: process 1 keeps its
\* data file open on DATA_FD.
HasOpenFile(p) == p = 1

\* The status a user program passes to the exit system call.
USER_STATUS == 0

\* The head of exit: the status is *esp, or -1 when esp is NULL.
exit_status(esp) == IF esp # NULL THEN USER_STATUS ELSE 0 - 1

\* exit (NULL) / exit (esp) after its validation: close_file for the open
\* descriptors, each under file_lock.  lock_acquire asserts that the caller
\* does not hold the lock already.
Exit(p) ==
  /\ At(p, "exit")
  /\ IF HasOpenFile(p) /\ file_lock = p
       THEN /\ panic' = "lock_held"
            /\ UNCHANGED <<pc, acq, loc>>
       ELSE /\ HasOpenFile(p) => CanTake(file_lock)
            /\ acq' = IF HasOpenFile(p) THEN Acquire(Held(p), FILESYS) ELSE acq
            /\ loc' = [loc EXCEPT ![p].status = exit_status(loc[p].exit_esp)]
            /\ pc' = [pc EXCEPT ![p] = "ds_next"]
            /\ UNCHANGED panic
  /\ UNCHANGED <<spt, pagedir, frame_table, pool, mem, swap_used, swapdata,
                 filedata, filelen, pin_lock, frame_table_lock, evict_lock,
                 file_lock, ops, mmap_files, lastw, evB>>

\* exit: destroy_spt walks the table in the order of the hash buckets, which
\* is any order as far as page numbers go; per entry, free_spte's test of
\* spte->frame.  After the last entry: the exit message under file_lock and
\* process_exit, which destroys the page directory.
DsNext(p) ==
  /\ At(p, "ds_next")
  /\ IF SptPages(p) = {}
       THEN IF file_lock = p
              THEN /\ panic' = "lock_held"
                   /\ UNCHANGED <<spt, pagedir, pc, loc, lastw, evB, acq>>
              ELSE /\ CanTake(file_lock)
                   /\ acq' = Acquire(Held(p), FILESYS)
                   /\ pagedir' = [pagedir EXCEPT ![p] = [n \in PageNums |-> NoPte]]
                   /\ pc' = [pc EXCEPT ![p] = "dead"]
                   /\ loc' = [loc EXCEPT ![p] =
                                [LocInit EXCEPT !.status = loc[p].status,
                                                !.exit_esp = loc[p].exit_esp,
                                                !.rejected = loc[p].rejected]]
                   /\ UNCHANGED <<spt, lastw, evB, panic>>
       ELSE \E n \in SptPages(p) :
            IF spt[p][n].frame # NULL
              THEN /\ loc' = [loc EXCEPT ![p].spte = n, ![p].ret = "ds_next"]
                   /\ pc' = [pc EXCEPT ![p] = "fs_wb"]
                   /\ UNCHANGED <<spt, pagedir, lastw, evB, acq, panic>>
              ELSE /\ spt' = [spt EXCEPT ![p][n] = NoSpte]
                   /\ lastw' = [lastw EXCEPT ![p][n] = UNINIT]
                   /\ evB' = [evB EXCEPT ![p][n] = UNINIT]
                   /\ UNCHANGED <<pagedir, loc, pc, acq, panic>>
  /\ UNCHANGED <<frame_table, pool, mem, swap_used, swapdata, filedata,
                 filelen, pin_lock, frame_table_lock, evict_lock, file_lock,
                 ops, mmap_files>>

(* ----------------------------- grow_stack ------------------------------ *)
\* The cast (size_t) x: unsigned, modulo the word size.  Words are scaled to
\* 20 bits, wide enough for every address of the scaled address space.
SizeT(x) == x % (2 ^ 20)

\* Fault injection: the refusal test without the cast to size_t.
StackTooBigSigned(uaddr) == PHYS_BASE - uaddr > MAX_STACK_SIZE

\* grow_stack's refusal test on (size_t) (PHYS_BASE - uaddr).
StackTooBig(uaddr) == SizeT(PHYS_BASE - uaddr) > MAX_STACK_SIZE

\* The entry grow_stack creates: create_spte_code, then spte->pinned = pinned.
grow_stack_entry(pinned) == [create_spte_code EXCEPT !.pinned = pinned]

\* grow_stack (loc.addr, loc.pin) up to the call of install_load_page.
GrowStack(p) ==
  /\ At(p, "gs")
  /\ IF StackTooBig(loc[p].addr)
       THEN /\ pc' = [pc EXCEPT ![p] = "exit"]
            /\ UNCHANGED <<spt, loc, acq>>
       ELSE /\ CanTake(pin_lock)
            /\ acq' = Acquire(Held(p), PIN)
            /\ spt' = [spt EXCEPT ![p][pg_no(loc[p].addr)] =
                                     grow_stack_entry(loc[p].pin)]
            /\ loc' = [loc EXCEPT ![p].spte = pg_no(loc[p].addr)]
            /\ pc' = [pc EXCEPT ![p] = "il_lock"]
  /\ UNCHANGED <<pagedir, frame_table, pool, mem, swap_used, swapdata,
                 filedata, filelen, pin_lock, frame_table_lock, evict_lock,
                 file_lock, ops, mmap_files, panic, lastw, evB>>

\* A kernel path calls grow_stack (addr, pinned) for an address its lookup
\* found no entry for, and terminates the process when the call returns false.
GrowCall(p, addr, pinned) ==
  /\ At(p, "user")
  /\ ops[p] < MaxOps
  /\ ~Present(uvaddr_to_spt_entry(p, addr))
  /\ ops' = [ops EXCEPT ![p] = @ + 1]
  /\ loc' = [loc EXCEPT ![p].addr = addr, ![p].pin = pinned,
                        ![p].ret = "gs_ok"]
  /\ pc' = [pc EXCEPT ![p] = "gs"]
  /\ UNCHANGED <<spt, pagedir, frame_table, pool, mem, swap_used, swapdata,
                 filedata, filelen, pin_lock, frame_table_lock, evict_lock,
                 file_lock, mmap_files, panic, lastw, acq, evB>>

\* grow_stack has returned true to that caller.
GsRet(p) ==
  /\ At(p, "gs_ok")
  /\ pc' = [pc EXCEPT ![p] = "user"]
  /\ loc' = [loc EXCEPT ![p] = LocInit]
  /\ UNCHANGED <<spt, pagedir, frame_table, pool, mem, swap_used, swapdata,
                 filedata, filelen, pin_lock, frame_table_lock, evict_lock,
                 file_lock, ops, mmap_files, panic, lastw, acq, evB>>

(* ------------------- user-mode accesses and page faults ---------------- *)
\* The address a user program touches in page n: the stack pointer in the
\* stack page, the first byte elsewhere.
AccessAddr(n) == IF n = pg_no(USER_ESP) THEN USER_ESP ELSE n * PGSIZE

\* A user-mode load (wr = FALSE) or store (wr = TRUE) to page n by process
\* p, which is at `at`.  On a mapped page the hardware sets the accessed /
\* dirty bits; a store to a read-only mapping terminates the process; a miss
\* enters the page-fault handler: load the entry unpinned, else grow the
\* stack, else terminate.  After a successful load the instruction is retried.
Access(p, n, wr) ==
  LET pte == pagedir[p][n]
      a == AccessAddr(n)
  IN  IF pte.frame # NULL
        THEN IF wr /\ ~pte.writable
               THEN /\ pc' = [pc EXCEPT ![p] = "exit"]
                    /\ UNCHANGED <<pagedir, mem, lastw, loc>>
               ELSE /\ pagedir' = [pagedir EXCEPT ![p][n].accessed = TRUE,
                                      ![p][n].dirty = (pte.dirty \/ wr)]
                    /\ mem' = IF wr THEN [mem EXCEPT ![pte.frame] = NextVal(@)]
                                    ELSE mem
                    /\ lastw' = IF wr
                                  THEN [lastw EXCEPT ![p][n] = NextVal(mem[pte.frame])]
                                  ELSE lastw
                    /\ pc' = [pc EXCEPT ![p] = "user"]
                    /\ loc' = [loc EXCEPT ![p] = LocInit]
      ELSE IF Present(spt[p][n])
        THEN /\ loc' = [loc EXCEPT ![p].spte = n, ![p].ret = "ua",
                                   ![p].acc = n, ![p].wr = wr]
             /\ pc' = [pc EXCEPT ![p] = "il_lock"]
             /\ UNCHANGED <<pagedir, mem, lastw>>
      ELSE IF a >= USER_ESP - STACK_HEURISTIC
        THEN /\ loc' = [loc EXCEPT ![p].addr = a, ![p].pin = FALSE,
                                   ![p].ret = "ua", ![p].acc = n, ![p].wr = wr]
             /\ pc' = [pc EXCEPT ![p] = "gs"]
             /\ UNCHANGED <<pagedir, mem, lastw>>
      ELSE /\ pc' = [pc EXCEPT ![p] = "exit"]
           /\ UNCHANGED <<pagedir, mem, lastw, loc>>

\* A process in user mode issues a load or a store.
UserAccess(p, n, wr) ==
  /\ At(p, "user")
  /\ ops[p] < MaxOps
  /\ ops' = [ops EXCEPT ![p] = @ + 1]
  /\ Access(p, n, wr)
  /\ UNCHANGED <<spt, frame_table, pool, swap_used, swapdata, filedata,
                 filelen, pin_lock, frame_table_lock, evict_lock, file_lock,
                 mmap_files, panic, acq, evB>>

\* The faulting instruction runs again after the handler returned.
Ua(p) ==
  /\ At(p, "ua")
  /\ Access(p, loc[p].acc, loc[p].wr)
  /\ UNCHANGED <<spt, frame_table, pool, swap_used, swapdata, filedata,
                 filelen, pin_lock, frame_table_lock, evict_lock, file_lock,
                 ops, mmap_files, panic, acq, evB>>

(* ------------------ validate, valid_up, unpin_buffer ------------------- *)
WORD == 4                       \* sizeof (int), sizeof (void *)
STDIN_FILENO == 0
DATA_FD == 2                    \* the descriptor the process holds its data file on

\* validate (esp, ptr, size): the addresses handed to valid_up, in order,
\* each with the esp it is compared against.
ValidateList(esp, ptr, size) ==
  <<<<esp, ptr>>>> \o
  (IF size # 1 THEN <<<<esp, ptr + size - 1>>>> ELSE <<>>) \o
  [k \in 1..((size - 1) \div PGSIZE) |-> <<esp, ptr + k * PGSIZE>>]

\* A valid_up call on the page of the call before it finds the entry pinned
\* and mapped and changes nothing: such calls are folded into the first.
RECURSIVE Compress(_)
Compress(s) ==
  IF Len(s) <= 1 THEN s
  ELSE IF pg_no(s[1][2]) = pg_no(s[2][2]) /\ s[1][2] > 0
    THEN Compress(<<s[1]>> \o SubSeq(s, 3, Len(s)))
    ELSE <<s[1]>> \o Compress(Tail(s))

\* syscall_handler's two validations of the stack.
HandlerList ==
  ValidateList(USER_ESP, USER_ESP, WORD) \o
  ValidateList(USER_ESP + WORD, USER_ESP + WORD, WORD)

\* read: fd, buffer pointer, size, then the buffer itself.
ReadList(buf, size) ==
  ValidateList(USER_ESP + WORD, USER_ESP + WORD, WORD) \o
  ValidateList(USER_ESP + 2 * WORD, USER_ESP + 2 * WORD, WORD) \o
  ValidateList(USER_ESP + 3 * WORD, USER_ESP + 3 * WORD, WORD) \o
  ValidateList(USER_ESP + 4 * WORD, buf, size)

\* The pages unpin_buffer (buffer, size) looks up.
UnpinPages(buffer, size) ==
  {pg_no(buffer), pg_no(buffer + size - 1)} \cup
  {pg_no(buffer + k * PGSIZE) : k \in 1..((size - 1) \div PGSIZE)}

\* Fault injection: unpin_buffer that looks up the page of buffer only.
unpin_buffer_first(table, buffer, size) ==
  [n \in DOMAIN table |->
     IF n = pg_no(buffer) /\ Present(table[n])
       THEN [table[n] EXCEPT !.pinned = FALSE] ELSE table[n]]

\* unpin_buffer applied to one process's table.
unpin_buffer(table, buffer, size) ==
  [n \in DOMAIN table |->
     IF n \in UnpinPages(buffer, size) /\ Present(table[n])
       THEN [table[n] EXCEPT !.pinned = FALSE] ELSE table[n]]

\* The pages of the byte range [ptr, ptr + size).
RangePages(ptr, size) == {n \in PageNums : \E a \in ptr..(ptr + size - 1) : pg_no(a) = n}

\* Fault injection: valid_up that leaves the flag alone.
PinEntryNot(e) == e

\* valid_up sets the flag of an entry it found.
PinEntry(e) == [e EXCEPT !.pinned = TRUE]

\* Fault injection: valid_up growing the stack wherever the address is.
InStackReachAlways(esp, ptr) == TRUE

\* valid_up's stack heuristic, ptr >= esp - STACK_HEURISTIC.
InStackReach(esp, ptr) == ptr >= esp - STACK_HEURISTIC

\* One valid_up (esp, ptr) call: the head of loc.todo.  Where valid_up gives
\* up it calls exit (NULL).
Vu(p) ==
  /\ At(p, "vu")
  /\ loc[p].todo # <<>>
  /\ LET esp == Head(loc[p].todo)[1]
         ptr == Head(loc[p].todo)[2]
         rest == Tail(loc[p].todo)
         n == pg_no(ptr)
         e == uvaddr_to_spt_entry(p, ptr)
         back == IF rest = <<>> THEN loc[p].after ELSE "vu"
     IN  IF ptr = NULL \/ ~is_user_vaddr(ptr)
           THEN /\ pc' = [pc EXCEPT ![p] = "exit"]
                /\ loc' = [loc EXCEPT ![p].todo = <<>>]
                /\ UNCHANGED <<spt, acq>>
         ELSE IF Present(e)
           THEN /\ CanTake(pin_lock)
                /\ acq' = Acquire(Held(p), PIN)
                /\ spt' = [spt EXCEPT ![p][n] = PinEntry(e)]
                /\ IF pagedir[p][n].frame = NULL
                     THEN /\ loc' = [loc EXCEPT ![p].todo = rest, ![p].spte = n,
                                                ![p].ret = back]
                          /\ pc' = [pc EXCEPT ![p] = "il_lock"]
                     ELSE /\ loc' = [loc EXCEPT ![p].todo = rest,
                                                ![p].vok = @ \cup {n}]
                          /\ pc' = [pc EXCEPT ![p] = back]
         ELSE IF pagedir[p][n].frame # NULL
           THEN /\ loc' = [loc EXCEPT ![p].todo = rest]
                /\ pc' = [pc EXCEPT ![p] = back]
                /\ UNCHANGED <<spt, acq>>
         ELSE IF InStackReach(esp, ptr)
           THEN /\ loc' = [loc EXCEPT ![p].todo = rest, ![p].addr = ptr,
                                      ![p].pin = TRUE, ![p].ret = back]
                /\ pc' = [pc EXCEPT ![p] = "gs"]
                /\ UNCHANGED <<spt, acq>>
         ELSE /\ pc' = [pc EXCEPT ![p] = "exit"]
              /\ loc' = [loc EXCEPT ![p].todo = <<>>, ![p].rejected = TRUE]
              /\ UNCHANGED <<spt, acq>>
  /\ UNCHANGED <<pagedir, frame_table, pool, mem, swap_used, swapdata,
                 filedata, filelen, pin_lock, frame_table_lock, evict_lock,
                 file_lock, ops, mmap_files, panic, lastw, evB>>

\* syscall_handler's tail: unpin_buffer (f->esp, sizeof (esp)) and
\* unpin_buffer (f->esp + PGSIZE, sizeof (esp)); back to user mode.
ShUnpin(p) ==
  /\ At(p, "sh_unpin")
  /\ CanTake(pin_lock)
  /\ acq' = Acquire(Held(p), PIN)
  /\ spt' = [spt EXCEPT ![p] =
       unpin_buffer(unpin_buffer(@, USER_ESP, WORD), USER_ESP + PGSIZE, WORD)]
  /\ pc' = [pc EXCEPT ![p] = "user"]
  /\ loc' = [loc EXCEPT ![p] = LocInit]
  /\ UNCHANGED <<pagedir, frame_table, pool, mem, swap_used, swapdata,
                 filedata, filelen, pin_lock, frame_table_lock, evict_lock,
                 file_lock, ops, mmap_files, panic, lastw, evB>>

(* ------------------------------- read ---------------------------------- *)
\* The read system call enters the kernel: syscall_handler and read validate
\* the stack words and the buffer.
SysRead(p, fd, buf, size) ==
  /\ At(p, "user")
  /\ ops[p] < MaxOps
  /\ ops' = [ops EXCEPT ![p] = @ + 1]
  /\ loc' = [loc EXCEPT ![p].todo = Compress(HandlerList \o ReadList(buf, size)),
                        ![p].after = "rd_body",
                        ![p].fd = fd, ![p].buf = buf, ![p].size = size]
  /\ pc' = [pc EXCEPT ![p] = "vu"]
  /\ UNCHANGED <<spt, pagedir, frame_table, pool, mem, swap_used, swapdata,
                 filedata, filelen, pin_lock, frame_table_lock, evict_lock,
                 file_lock, mmap_files, panic, lastw, acq, evB>>

\* The page directories after the kernel has read the argument words of the
\* call through the user stack pointer: the hardware marks the page accessed.
ArgsRead(p) ==
  IF pagedir[p][pg_no(USER_ESP)].frame # NULL
    THEN [pagedir EXCEPT ![p][pg_no(USER_ESP)].accessed = TRUE]
    ELSE pagedir

\* is_writable (ptr) lets the call go on.
is_writable(e) == ~(e.type = FILE /\ ~e.writable)

\* read after validation: the branch on fd, is_writable (buffer) on the
\* file branch, lock_acquire (&file_lock).
RdBody(p) ==
  /\ At(p, "rd_body")
  /\ IF loc[p].fd # STDIN_FILENO /\ ~is_writable(uvaddr_to_spt_entry(p, loc[p].buf))
       THEN /\ pc' = [pc EXCEPT ![p] = "exit"]
            /\ UNCHANGED <<file_lock, acq>>
       ELSE /\ CanTake(file_lock)
            /\ file_lock' = p
            /\ acq' = Acquire(Held(p), FILESYS)
            /\ pc' = [pc EXCEPT ![p] = "rd_copy"]
  /\ pagedir' = ArgsRead(p)
  /\ UNCHANGED <<spt, frame_table, pool, mem, swap_used, swapdata,
                 filedata, filelen, pin_lock, frame_table_lock, evict_lock,
                 loc, ops, mmap_files, panic, lastw, evB>>

\* The value the kernel stores: a key from input_getc, or the file's bytes.
ReadValue(p, fd) == IF fd = STDIN_FILENO THEN 1 ELSE filedata[DataFile(p)][0]

\* The kernel's stores into the buffer pages ns (ascending), through the
\* user mapping: each page is written in turn; a page protection fault (a
\* read-only or missing mapping) stops the copy and terminates the process.
RECURSIVE CopyOut(_, _, _, _, _, _)
CopyOut(p, ns, v, pd, m, cnt) ==
  IF ns = {} THEN [pd |-> pd, mem |-> m, cnt |-> cnt, fault |-> FALSE]
  ELSE LET n == Min(ns)
           pte == pd[p][n]
       IN  IF pte.frame = NULL \/ ~pte.writable
             THEN [pd |-> pd, mem |-> m, cnt |-> cnt, fault |-> TRUE]
             ELSE CopyOut(p, ns \ {n}, v,
                          [pd EXCEPT ![p][n].dirty = TRUE, ![p][n].accessed = TRUE],
                          [m EXCEPT ![pte.frame] = v], cnt + 1)

\* read: the copy into the buffer and lock_release (&file_lock).
RdCopy(p) ==
  /\ At(p, "rd_copy")
  /\ LET ns == RangePages(loc[p].buf, loc[p].size)
         r == CopyOut(p, ns, ReadValue(p, loc[p].fd), pagedir, mem, 0)
         done == {n \in ns : pagedir[p][n] # r.pd[p][n]}
     IN  /\ pagedir' = r.pd
         /\ mem' = r.mem
         /\ lastw' = [lastw EXCEPT ![p] =
                        [n \in PageNums |-> IF n \in done
                                              THEN ReadValue(p, loc[p].fd)
                                              ELSE lastw[p][n]]]
         /\ loc' = [loc EXCEPT ![p].nwr = r.cnt]
         /\ IF r.fault
              THEN /\ pc' = [pc EXCEPT ![p] = "exit"]
                   /\ UNCHANGED file_lock
              ELSE /\ pc' = [pc EXCEPT ![p] = "rd_unpin"]
                   /\ file_lock' = NoThread
  /\ UNCHANGED <<spt, frame_table, pool, swap_used, swapdata, filedata,
                 filelen, pin_lock, frame_table_lock, evict_lock, ops,
                 mmap_files, panic, acq, evB>>

\* read: unpin_buffer (buffer, size), return to syscall_handler.
RdUnpin(p) ==
  /\ At(p, "rd_unpin")
  /\ CanTake(pin_lock)
  /\ acq' = Acquire(Held(p), PIN)
  /\ spt' = [spt EXCEPT ![p] = unpin_buffer(@, loc[p].buf, loc[p].size)]
  /\ loc' = [loc EXCEPT ![p].vok = @ \ UnpinPages(loc[p].buf, loc[p].size)]
  /\ pc' = [pc EXCEPT ![p] = "sh_unpin"]
  /\ UNCHANGED <<pagedir, frame_table, pool, mem, swap_used, swapdata,
                 filedata, filelen, pin_lock, frame_table_lock, evict_lock,
                 file_lock, ops, mmap_files, panic, lastw, evB>>

\* The exit system call: the stack words are validated, then exit destroys
\* the table.
SysExit(p) ==
  /\ At(p, "user")
  /\ ops[p] < MaxOps
  /\ ops' = [ops EXCEPT ![p] = @ + 1]
  /\ loc' = [loc EXCEPT ![p].todo =
                Compress(HandlerList \o
                         ValidateList(USER_ESP + WORD, USER_ESP + WORD, WORD)),
                        ![p].after = "exit_esp"]
  /\ pc' = [pc EXCEPT ![p] = "vu"]
  /\ UNCHANGED <<spt, pagedir, frame_table, pool, mem, swap_used, swapdata,
                 filedata, filelen, pin_lock, frame_table_lock, evict_lock,
                 file_lock, mmap_files, panic, lastw, acq, evB>>

\* exit (esp) of the exit system call, esp # NULL, once its validation has
\* returned: the status is read from the stack.
ExitEsp(p) ==
  /\ At(p, "exit_esp")
  /\ loc' = [loc EXCEPT ![p].exit_esp = USER_ESP + WORD]
  /\ pc' = [pc EXCEPT ![p] = "exit"]
  /\ UNCHANGED <<spt, pagedir, frame_table, pool, mem, swap_used, swapdata,
                 filedata, filelen, pin_lock, frame_table_lock, evict_lock,
                 file_lock, ops, mmap_files, panic, lastw, acq, evB>>

(* --------------------------- mmap and munmap --------------------------- *)
BIG_FD == 3                     \* the descriptor of the process's big file

\* t->files[fd] of process p.
FdFile(p, fd) == IF fd = DATA_FD THEN DataFile(p) ELSE BigFile(p)

\* is_valid_page (upage): non-zero and page aligned.
is_valid_page(upage) == upage # 0 /\ upage % PGSIZE = 0

\* One page of create_spte_mmap's loop: the entry for page k of the file.
create_spte_mmap_entry(f, size, k) ==
  [create_spte EXCEPT !.type = MMAP, !.file = f, !.ofs = k * PGSIZE,
                      !.page_read_bytes = Min({size - k * PGSIZE, PGSIZE}),
                      !.writable = TRUE]

\* Values a field can hold that malloc left uninitialised.
UninitBytes == {0, PGSIZE, NPages * PGSIZE}

\* The mmap system call enters the kernel: the stack words are validated.
SysMmap(p, fd, addr) ==
  /\ At(p, "user")
  /\ ops[p] < MaxOps
  /\ ops' = [ops EXCEPT ![p] = @ + 1]
  /\ loc' = [loc EXCEPT ![p].todo =
                Compress(HandlerList \o
                         ValidateList(USER_ESP + WORD, USER_ESP + WORD, WORD) \o
                         ValidateList(USER_ESP + 2 * WORD, USER_ESP + 2 * WORD, WORD)),
                        ![p].after = "mm_body", ![p].fd = fd, ![p].buf = addr]
  /\ pc' = [pc EXCEPT ![p] = "vu"]
  /\ UNCHANGED <<spt, pagedir, frame_table, pool, mem, swap_used, swapdata,
                 filedata, filelen, pin_lock, frame_table_lock, evict_lock,
                 file_lock, mmap_files, panic, lastw, acq, evB>>

\* mmap after validation: file_reopen, file_length under file_lock, and
\* create_spte_mmap up to its return or its call of free_spte_mmap.
MmBody(p) ==
  /\ At(p, "mm_body")
  /\ pagedir' = ArgsRead(p)
  /\ IF ~is_valid_page(loc[p].buf)
       THEN /\ pc' = [pc EXCEPT ![p] = "sh_unpin"]
            /\ UNCHANGED <<spt, loc, mmap_files, acq>>
       ELSE LET f == file_reopen(FdFile(p, loc[p].fd), ops[p])
                size == filelen[Inode(f)]
                pg == pg_no(loc[p].buf)
                npg == (size + PGSIZE - 1) \div PGSIZE
                taken == {k \in 0..(npg - 1) :
                            Present(uvaddr_to_spt_entry(p, (pg + k) * PGSIZE))}
                made == IF taken = {} THEN npg ELSE Min(taken)
                table == [n \in SptIdx |->
                            IF n >= pg /\ n < pg + made
                              THEN create_spte_mmap_entry(f, size, n - pg)
                              ELSE spt[p][n]]
            IN  /\ CanTake(file_lock)
                /\ acq' = Acquire(Held(p), FILESYS)
                /\ spt' = [spt EXCEPT ![p] = table]
                /\ IF taken = {} /\ npg > 0
                     THEN /\ mmap_files' = [mmap_files EXCEPT ![p] =
                                              Append(@, [page |-> pg, file |-> f])]
                          /\ pc' = [pc EXCEPT ![p] = "sh_unpin"]
                          /\ UNCHANGED loc
                     ELSE IF made = 0
                       THEN /\ pc' = [pc EXCEPT ![p] = "sh_unpin"]
                            /\ loc' = [loc EXCEPT ![p].fm_rollback = TRUE,
                                                  ![p].fm_pre = SptPages(p)]
                            /\ UNCHANGED mmap_files
                       ELSE /\ loc' = [loc EXCEPT ![p].fm_rollback = TRUE,
                                                  ![p].fm_pre = SptPages(p),
                                                  ![p].fm_rb = size,
                                                  ![p].fm_page = pg,
                                                  ![p].fm_first = pg,
                                                  ![p].fm_file = f,
                                                  ![p].fm_freed = FALSE]
                            /\ pc' = [pc EXCEPT ![p] = "fm_next"]
                            /\ UNCHANGED mmap_files
  /\ UNCHANGED <<frame_table, pool, mem, swap_used, swapdata, filedata,
                 filelen, pin_lock, frame_table_lock, evict_lock, file_lock,
                 ops, panic, lastw, evB>>

\* The munmap system call enters the kernel.
SysMunmap(p, id) ==
  /\ At(p, "user")
  /\ ops[p] < MaxOps
  /\ ops' = [ops EXCEPT ![p] = @ + 1]
  /\ loc' = [loc EXCEPT ![p].todo =
                Compress(HandlerList \o
                         ValidateList(USER_ESP + WORD, USER_ESP + WORD, WORD)),
                        ![p].after = "mu_body", ![p].fd = id]
  /\ pc' = [pc EXCEPT ![p] = "vu"]
  /\ UNCHANGED <<spt, pagedir, frame_table, pool, mem, swap_used, swapdata,
                 filedata, filelen, pin_lock, frame_table_lock, evict_lock,
                 file_lock, mmap_files, panic, lastw, acq, evB>>

\* munmap after validation: t->mmap_files[map_id] (slot map_id of the model
\* is at position map_id + 1) and the head of free_spte_mmap.  The slot is
\* never cleared, so it may point to an entry that was freed; reading
\* through it is undefined.
MuBody(p) ==
  /\ At(p, "mu_body")
  /\ pagedir' = ArgsRead(p)
  /\ IF loc[p].fd + 1 \notin 1..Len(mmap_files[p])
       THEN /\ pc' = [pc EXCEPT ![p] = "sh_unpin"]
            /\ UNCHANGED <<loc, panic>>
       ELSE LET slot == mmap_files[p][loc[p].fd + 1]
                e == spt[p][slot.page]
            IN  IF Present(e) /\ e.file = slot.file
                  THEN /\ loc' = [loc EXCEPT ![p].fm_rb = filelen[Inode(e.file)],
                                             ![p].fm_page = slot.page,
                                             ![p].fm_first = slot.page,
                                             ![p].fm_file = e.file,
                                             ![p].fm_freed = FALSE]
                       /\ pc' = [pc EXCEPT ![p] = "fm_next"]
                       /\ UNCHANGED panic
                  ELSE \/ /\ panic' = "use_after_free"
                          /\ UNCHANGED <<loc, pc>>
                       \/ /\ pc' = [pc EXCEPT ![p] = "sh_unpin"]
                          /\ UNCHANGED <<loc, panic>>
  /\ UNCHANGED <<spt, frame_table, pool, mem, swap_used, swapdata, filedata,
                 filelen, pin_lock, frame_table_lock, evict_lock, file_lock,
                 ops, mmap_files, lastw, acq, evB>>

\* One round of free_spte_mmap's loop.  The page's entry is looked up and
\* dereferenced unchecked; page_read_bytes and file of an entry that is not
\* file backed were never initialised; first_spte->file is read again after
\* first_spte was freed.
FmNext(p) ==
  /\ At(p, "fm_next")
  /\ LET n == loc[p].fm_page
         e == uvaddr_to_spt_entry(p, n * PGSIZE)
     IN  IF loc[p].fm_rb <= 0
           THEN /\ pc' = [pc EXCEPT ![p] = "sh_unpin"]
                /\ UNCHANGED <<spt, loc, panic, lastw, evB>>
         ELSE IF ~Present(e)
           THEN \/ /\ panic' = "null_deref"
                   /\ UNCHANGED <<spt, loc, pc, lastw, evB>>
                \/ /\ pc' = [pc EXCEPT ![p] = "exit"]
                   /\ UNCHANGED <<spt, loc, panic, lastw, evB>>
         ELSE \E prb \in (IF e.page_read_bytes = UNINIT THEN UninitBytes
                                                        ELSE {e.page_read_bytes}),
                 same \in (IF e.file # UNINIT /\ ~loc[p].fm_freed
                             THEN {e.file = loc[p].fm_file} ELSE BOOLEAN) :
                /\ UNCHANGED panic
                /\ IF same /\ e.frame # NULL
                     THEN /\ loc' = [loc EXCEPT ![p].fm_rb = @ - prb,
                                        ![p].fm_page = n + 1,
                                        ![p].fm_freed = @ \/ n = loc[p].fm_first,
                                        ![p].spte = n, ![p].ret = "fm_next"]
                          /\ pc' = [pc EXCEPT ![p] = "fs_wb"]
                          /\ UNCHANGED <<spt, lastw, evB>>
                     ELSE /\ loc' = [loc EXCEPT ![p].fm_rb = @ - prb,
                                        ![p].fm_page = n + 1,
                                        ![p].fm_freed =
                                           @ \/ (same /\ n = loc[p].fm_first)]
                          /\ spt' = IF same THEN [spt EXCEPT ![p][n] = NoSpte]
                                            ELSE spt
                          /\ lastw' = IF same THEN [lastw EXCEPT ![p][n] = UNINIT]
                                              ELSE lastw
                          /\ evB' = IF same THEN [evB EXCEPT ![p][n] = UNINIT]
                                            ELSE evB
                          /\ UNCHANGED pc
  /\ UNCHANGED <<pagedir, frame_table, pool, mem, swap_used, swapdata,
                 filedata, filelen, pin_lock, frame_table_lock, evict_lock,
                 file_lock, ops, mmap_files, acq>>

\* The steps inside the kernel that every specification shares.
Paging(p) ==
  \/ IlLock(p) \/ FaPin(p) \/ FaFtl(p) \/ Gv1(p) \/ Gv2(p)
  \/ Ev1(p) \/ Ev2(p) \/ Ev3(p) \/ Aft(p) \/ IlFin(p)
  \/ IlFail(p) \/ FfRm(p) \/ FfPf(p) \/ FsWb(p) \/ FsDel(p)
  \/ Exit(p) \/ DsNext(p) \/ GrowStack(p) \/ Ua(p)

Syscall(p) ==
  \/ Vu(p) \/ ShUnpin(p) \/ RdBody(p) \/ RdCopy(p) \/ RdUnpin(p)
  \/ ExitEsp(p)

\* Process 2 loads from its executable pages and its stack page and stores
\* to its writable page, which puts the frame pool under pressure.
Press(p) ==
  \/ \E n \in {EXE_PAGE - 1, EXE_PAGE, NPages - 1} : UserAccess(p, n, FALSE)
  \/ UserAccess(p, EXE_PAGE, TRUE)

\* The read system calls process 1 makes, as <<fd, buffer, size>>: from the
\* keyboard or from its data file, into a buffer on its stack, in its data
\* page, in its code page, or across the two.
ReadCalls ==
  {<<STDIN_FILENO, PHYS_BASE - 200, 1>>,
   <<DATA_FD, (EXE_PAGE - 1) * PGSIZE, 1>>,
   <<DATA_FD, EXE_PAGE * PGSIZE, 1>>,
   <<STDIN_FILENO, EXE_PAGE * PGSIZE - 1, 2>>,
   <<STDIN_FILENO, PHYS_BASE - MAX_STACK_SIZE, 1>>,
   <<DATA_FD, EXE_PAGE * PGSIZE - 1, 2>>}

Reads(p) == \E r \in ReadCalls : SysRead(p, r[1], r[2], r[3])

\* Three frames; process 1 has a writable data page below a read-only code
\* page, process 2 one writable page and one that cannot be loaded.
Init == InitWith(<<SegBoth, SegShort>>, 3, NoneStarted)

Next ==
  \/ \E p \in Procs : Paging(p) \/ Syscall(p)
  \/ Reads(1) \/ SysExit(1)
  \/ Press(2)

Spec == Init /\ [][Next]_vars

Mapping(p) == MmBody(p) \/ MuBody(p) \/ FmNext(p)

\* The mmap calls process 1 makes: its one-page data file or its three-page
\* big file, at page 1 or at page 2.
Mmaps(p) ==
  \E fd \in {DATA_FD, BIG_FD}, n \in {1, 2} : SysMmap(p, fd, n * PGSIZE)

\* Two frames; process 1, with one read-only code page, maps files, stores
\* to the pages it mapped and unmaps; process 2 puts the pool under pressure.
SegCode == (EXE_PAGE :> Seg(FALSE, 0))

InitMmap == InitWith(<<SegCode, SegShort>>, 2, NoneStarted)

NextMmap ==
  \/ \E p \in Procs : Paging(p) \/ Vu(p) \/ ShUnpin(p) \/ Mapping(p)
                       \/ ExitEsp(p)
  \/ Mmaps(1) \/ SysMunmap(1, 0) \/ SysExit(1)
  \/ \E n \in {1, 2}, wr \in BOOLEAN : UserAccess(1, n, wr)
  \/ Press(2)

SpecMmap == InitMmap /\ [][NextMmap]_vars

\* The addresses grow_stack is called with: inside the stack region, at its
\* lower edge, one byte below it, far below it, at PHYS_BASE and above it.
GrowAddrs ==
  {PHYS_BASE - 1, PHYS_BASE - MAX_STACK_SIZE, PHYS_BASE - MAX_STACK_SIZE - 1,
   PGSIZE, PHYS_BASE, PHYS_BASE + 1}

GrowCalls(p) == \E a \in GrowAddrs, pinned \in BOOLEAN : GrowCall(p, a, pinned)

\* Two frames; process 1, whose executable has one writable page low in the
\* address space, has grow_stack called on its behalf; process 2 puts the
\* pool under pressure.
SegLow == (1 :> Seg(TRUE, 0))

InitGrow == InitWith(<<SegLow, SegShort>>, 2, NoneStarted)

NextGrow ==
  \/ \E p \in Procs : Paging(p) \/ GsRet(p)
  \/ GrowCalls(1)
  \/ \E wr \in BOOLEAN : UserAccess(1, 1, wr)
  \/ Press(2)

SpecGrow == InitGrow /\ [][NextGrow]_vars

\* Two frames; process 1, whose executable has one page above the region it
\* maps, maps its three-page file or its one-page file, stores to the mapped
\* pages and unmaps; process 2 makes one access.
SegHigh == ((EXE_PAGE + 1) :> Seg(FALSE, 0))

InitUnmap ==
  InitWith(<<SegHigh, SegShort>>, 2,
           [p \in Procs |-> IF p = 1 THEN 0 - MoreOps ELSE MaxOps - 1])

NextUnmap ==
  \/ \E p \in Procs : Paging(p) \/ Vu(p) \/ ShUnpin(p) \/ Mapping(p)
  \/ SysMmap(1, BIG_FD, PGSIZE) \/ SysMmap(1, DATA_FD, 2 * PGSIZE)
  \/ SysMunmap(1, 0)
  \/ \E n \in {1, 2} : UserAccess(1, n, TRUE)
  \/ Press(2)

SpecUnmap == InitUnmap /\ [][NextUnmap]_vars

(* ------------- the supplemental page table as a hash table ------------- *)
\* The other specifications keep one entry per process and page.  SpecSpt
\* checks what that rests on: there the variable spt holds the hash tables
\* themselves, spt[p] being the bag of the elements of thread p's
\* supp_page_table, and the table operations are applied in any order.
MaxElems == 4       \* elements a table of SpecSpt may hold

\* The variables SpecSpt leaves alone.
machine == <<pagedir, frame_table, pool, mem, swap_used, swapdata, filedata,
             filelen, pin_lock, frame_table_lock, evict_lock, file_lock, pc,
             loc, ops, mmap_files, panic, lastw, acq, evB>>

\* A hash element: an entry under its key.
Elem(upage, e) == [upage |-> upage, entry |-> e]

\* hash_find with spt_less_func: the elements whose key equals upage.
hash_find(h, upage) == {x \in BagToSet(h) : x.upage = upage}

\* Fault injection: an insertion that does not look for an equal key.
hash_insert_blind(h, x) == h (+) SetToBag({x})

\* hash_insert: nothing is inserted when an element with an equal key is
\* in the table.
hash_insert(h, x) ==
  IF hash_find(h, x.upage) # {} THEN h ELSE h (+) SetToBag({x})

\* hash_delete: an element with the key of x leaves the table.
hash_delete(h, x) ==
  IF hash_find(h, x.upage) = {} THEN h
  ELSE h (-) SetToBag({IF BagIn(x, h) THEN x
                       ELSE CHOOSE y \in hash_find(h, x.upage) : TRUE})

RECURSIVE hash_delete_all(_, _)
hash_delete_all(h, xs) ==
  IF xs = {} THEN h
  ELSE LET x == CHOOSE y \in xs : TRUE
       IN  hash_delete_all(hash_delete(h, x), xs \ {x})

\* create_spte_file's loop on a table: pages entries from page n on.
RECURSIVE create_spte_file_loop(_, _, _, _, _)
create_spte_file_loop(h, file, n, k, pages) ==
  IF k >= pages THEN h
  ELSE create_spte_file_loop(
         hash_insert(h, Elem((n + k) * PGSIZE,
                             create_spte_file(file, k * PGSIZE, PGSIZE, FALSE))),
         file, n, k + 1, pages)

\* The tables free_spte_mmap (first) can leave: it walks the pages from
\* first's on for the length of the file and frees first; which of the
\* other elements it meets are freed depends on fields it reads from
\* uninitialised and from freed memory.
free_spte_mmap(h, first) ==
  LET len == IF first.entry.file = UNINIT THEN NPages * PGSIZE
             ELSE filelen[Inode(first.entry.file)]
      met == {x \in BagToSet(h) :
                /\ x.upage >= first.upage
                /\ x.upage < first.upage + len}
  IN  {hash_delete_all(h, D \cup {first}) : D \in SUBSET met}

\* create_spte_code (upage).
SptCode(p, n) ==
  /\ BagCardinality(spt[p]) < MaxElems
  /\ spt' = [spt EXCEPT ![p] = hash_insert(@, Elem(n * PGSIZE, create_spte_code))]
  /\ UNCHANGED machine

\* create_spte_file for a segment of one or two pages at page n.
SptFile(p, n, pages) ==
  /\ BagCardinality(spt[p]) + pages <= MaxElems
  /\ spt' = [spt EXCEPT ![p] = create_spte_file_loop(@, ExeFile(p), n, 0, pages)]
  /\ UNCHANGED machine

\* grow_stack (addr, pinned): refused, or create_spte_code for the page of
\* addr.
SptGrow(p, addr) ==
  /\ BagCardinality(spt[p]) < MaxElems
  /\ spt' = IF StackTooBig(addr) THEN spt
            ELSE [spt EXCEPT ![p] =
                    hash_insert(@, Elem(pg_round_down(addr), create_spte_code))]
  /\ UNCHANGED machine

\* create_spte_mmap (f, size, upage): entries are inserted page by page
\* until the file is covered or a page is met that has an entry, and then
\* free_spte_mmap runs on the first one inserted.
SptMmap(p, fd, n) ==
  LET f == file_reopen(FdFile(p, fd), BagCardinality(spt[p]))
      size == filelen[Inode(f)]
      npg == (size + PGSIZE - 1) \div PGSIZE
      taken == {k \in 0..(npg - 1) : hash_find(spt[p], (n + k) * PGSIZE) # {}}
      made == IF taken = {} THEN npg ELSE Min(taken)
      elem(k) == Elem((n + k) * PGSIZE, create_spte_mmap_entry(f, size, k))
      RECURSIVE ins(_, _)
      ins(h, k) == IF k >= made THEN h ELSE ins(hash_insert(h, elem(k)), k + 1)
  IN  /\ BagCardinality(spt[p]) + made <= MaxElems
      /\ IF taken = {} \/ made = 0
           THEN spt' = [spt EXCEPT ![p] = ins(@, 0)]
           ELSE \E h \in free_spte_mmap(ins(spt[p], 0), elem(0)) :
                  spt' = [spt EXCEPT ![p] = h]
      /\ UNCHANGED machine

\* munmap: free_spte_mmap on the first entry of a mapping.
SptUnmap(p) ==
  /\ \E first \in {x \in BagToSet(spt[p]) :
                     x.entry.type = MMAP /\ x.entry.ofs = 0} :
       \E h \in free_spte_mmap(spt[p], first) :
         spt' = [spt EXCEPT ![p] = h]
  /\ UNCHANGED machine

\* destroy_spt: hash_destroy frees every element.
SptDestroy(p) ==
  /\ spt[p] # EmptyBag
  /\ spt' = [spt EXCEPT ![p] = EmptyBag]
  /\ UNCHANGED machine

\* The pages and addresses the table operations are called with.
SptKeys == {1, 2, NPages - 1}

InitSpt ==
  /\ spt = [p \in Procs |-> EmptyBag]
  /\ InitMachine(NFrames, NoneStarted)

NextSpt ==
  \/ \E p \in Procs, n \in SptKeys : SptCode(p, n)
  \/ \E n \in SptKeys, pages \in {1, 2} : SptFile(1, n, pages)
  \/ \E a \in {PHYS_BASE - 1, PGSIZE} : SptGrow(1, a)
  \/ \E fd \in {DATA_FD, BIG_FD}, n \in SptKeys : SptMmap(1, fd, n)
  \/ SptUnmap(1)
  \/ \E p \in Procs : SptDestroy(p)

SpecSpt == InitSpt /\ [][NextSpt]_vars

(* ----------------------- reads of zero bytes ---------------------------- *)
\* The read system calls process 1 makes here, as <<fd, buffer, size>>: of no
\* bytes, into a buffer at the start or in the middle of its code page, and
\* of two bytes across its data page and its code page.
ZeroCalls ==
  {<<STDIN_FILENO, EXE_PAGE * PGSIZE, 0>>,
   <<STDIN_FILENO, EXE_PAGE * PGSIZE + 2 * WORD, 0>>,
   <<STDIN_FILENO, EXE_PAGE * PGSIZE - 1, 2>>}

InitZero == InitWith(<<SegBoth, SegShort>>, 3, NoneStarted)

NextZero ==
  \/ \E p \in Procs : \/ Paging(p)
                       \/ Vu(p) \/ ShUnpin(p)
                       \/ RdBody(p) \/ RdCopy(p) \/ RdUnpin(p)
  \/ \E r \in ZeroCalls : SysRead(1, r[1], r[2], r[3])
  \/ Press(2)

SpecZero == InitZero /\ [][NextZero]_vars

(* -------------------- system calls that take a string ------------------- *)
\* The open system call enters the kernel with file_name = str, a string of
\* len characters followed by a NUL byte: syscall_handler validates the stack
\* words, open validates its argument word and validate_string makes its
\* first call, validate (esp, s, sizeof (char)).
SysOpen(p, str, len) ==
  /\ At(p, "user")
  /\ ops[p] < MaxOps
  /\ ops' = [ops EXCEPT ![p] = @ + 1]
  /\ loc' = [loc EXCEPT ![p].todo =
                 Compress(HandlerList \o
                          ValidateList(USER_ESP + WORD, USER_ESP + WORD, WORD) \o
                          ValidateList(USER_ESP + 2 * WORD, str, 1)),
                        ![p].after = "st_rd",
                        ![p].buf = str, ![p].size = len, ![p].k = 0]
  /\ pc' = [pc EXCEPT ![p] = "vu"]
  /\ UNCHANGED <<spt, pagedir, frame_table, pool, mem, swap_used, swapdata,
                 filedata, filelen, pin_lock, frame_table_lock, evict_lock,
                 file_lock, mmap_files, panic, lastw, acq, evB>>

\* The kernel reads the byte at address a, which has no mapping: the
\* page-fault handler loads the page's entry unpinned, else grows the stack,
\* else terminates the process; the read is retried at `back`.
KernelFault(p, a, back) ==
  IF Present(spt[p][pg_no(a)])
    THEN /\ loc' = [loc EXCEPT ![p].spte = pg_no(a), ![p].ret = back]
         /\ pc' = [pc EXCEPT ![p] = "il_lock"]
  ELSE IF a >= USER_ESP - STACK_HEURISTIC
    THEN /\ loc' = [loc EXCEPT ![p].addr = a, ![p].pin = FALSE, ![p].ret = back]
         /\ pc' = [pc EXCEPT ![p] = "gs"]
  ELSE /\ pc' = [pc EXCEPT ![p] = "exit"]
       /\ UNCHANGED loc

\* validate_string's loop: the test *s != '\0' reads the byte at s; on a
\* character the body calls validate (esp, s++, sizeof (char)), on the NUL
\* byte the loop ends and open goes on.
StRd(p) ==
  /\ At(p, "st_rd")
  /\ LET a == loc[p].buf + loc[p].k
         n == pg_no(a)
     IN  IF pagedir[p][n].frame = NULL
           THEN /\ KernelFault(p, a, "st_rd")
                /\ UNCHANGED pagedir
         ELSE /\ pagedir' = [pagedir EXCEPT ![p][n].accessed = TRUE]
              /\ IF loc[p].k < loc[p].size
                   THEN /\ loc' = [loc EXCEPT
                                     ![p].todo = <<<<USER_ESP + 2 * WORD, a>>>>,
                                     ![p].k = @ + 1]
                        /\ pc' = [pc EXCEPT ![p] = "vu"]
                   ELSE /\ pc' = [pc EXCEPT ![p] = "st_body"]
                        /\ UNCHANGED loc
  /\ UNCHANGED <<spt, frame_table, pool, mem, swap_used, swapdata, filedata,
                 filelen, pin_lock, frame_table_lock, evict_lock, file_lock,
                 ops, mmap_files, panic, lastw, acq, evB>>

\* open: lock_acquire (&file_lock) before filesys_open.
StBody(p) ==
  /\ At(p, "st_body")
  /\ CanTake(file_lock)
  /\ file_lock' = p
  /\ acq' = Acquire(Held(p), FILESYS)
  /\ pagedir' = ArgsRead(p)
  /\ pc' = [pc EXCEPT ![p] = "st_open"]
  /\ UNCHANGED <<spt, frame_table, pool, mem, swap_used, swapdata, filedata,
                 filelen, pin_lock, frame_table_lock, evict_lock, loc, ops,
                 mmap_files, panic, lastw, evB>>

\* open: filesys_open (file_name), which reads the name up to its NUL byte
\* and faults when that byte's page is not mapped, and lock_release
\* (&file_lock); whether the file was found or not, unpin_str (file_name)
\* comes next.
StOpen(p) ==
  /\ At(p, "st_open")
  /\ LET a == loc[p].buf + loc[p].size IN
       IF pagedir[p][pg_no(a)].frame = NULL
         THEN /\ KernelFault(p, a, "st_open")
              /\ UNCHANGED file_lock
         ELSE /\ file_lock' = NoThread
              /\ pc' = [pc EXCEPT ![p] = "st_unpin"]
              /\ UNCHANGED loc
  /\ UNCHANGED <<spt, pagedir, frame_table, pool, mem, swap_used, swapdata,
                 filedata, filelen, pin_lock, frame_table_lock, evict_lock,
                 ops, mmap_files, panic, lastw, acq, evB>>

\* unpin_str (str): strlen (str) reads the string up to its NUL byte, then
\* unpin_buffer (str, l); return to syscall_handler.
StUnpin(p) ==
  /\ At(p, "st_unpin")
  /\ LET a == loc[p].buf + loc[p].size IN
       IF pagedir[p][pg_no(a)].frame = NULL
         THEN /\ KernelFault(p, a, "st_unpin")
              /\ UNCHANGED <<spt, acq>>
         ELSE /\ CanTake(pin_lock)
              /\ acq' = Acquire(Held(p), PIN)
              /\ spt' = [spt EXCEPT ![p] =
                           unpin_buffer(@, loc[p].buf, loc[p].size)]
              /\ loc' = [loc EXCEPT ![p].vok =
                           @ \ UnpinPages(loc[p].buf, loc[p].size)]
              /\ pc' = [pc EXCEPT ![p] = "sh_unpin"]
  /\ UNCHANGED <<pagedir, frame_table, pool, mem, swap_used, swapdata,
                 filedata, filelen, pin_lock, frame_table_lock, evict_lock,
                 file_lock, ops, mmap_files, panic, lastw, evB>>

(* ------------------------------- write ---------------------------------- *)
STDOUT_FILENO == 1

\* The write system call enters the kernel: the same validations as read.
SysWrite(p, fd, buf, size) ==
  /\ At(p, "user")
  /\ ops[p] < MaxOps
  /\ ops' = [ops EXCEPT ![p] = @ + 1]
  /\ loc' = [loc EXCEPT ![p].todo = Compress(HandlerList \o ReadList(buf, size)),
                        ![p].after = "wr_body",
                        ![p].fd = fd, ![p].buf = buf, ![p].size = size]
  /\ pc' = [pc EXCEPT ![p] = "vu"]
  /\ UNCHANGED <<spt, pagedir, frame_table, pool, mem, swap_used, swapdata,
                 filedata, filelen, pin_lock, frame_table_lock, evict_lock,
                 file_lock, mmap_files, panic, lastw, acq, evB>>

\* write after validation: lock_acquire (&file_lock) on the console branch.
WrBody(p) ==
  /\ At(p, "wr_body")
  /\ CanTake(file_lock)
  /\ file_lock' = p
  /\ acq' = Acquire(Held(p), FILESYS)
  /\ pagedir' = ArgsRead(p)
  /\ pc' = [pc EXCEPT ![p] = "wr_copy"]
  /\ UNCHANGED <<spt, frame_table, pool, mem, swap_used, swapdata, filedata,
                 filelen, pin_lock, frame_table_lock, evict_lock, loc, ops,
                 mmap_files, panic, lastw, evB>>

\* write: the putchar loop reads the buffer through the user mapping, then
\* lock_release (&file_lock); the statements that follow validate the word
\* at esp once more (esp != NULL here) before unpin_buffer (buffer, size).
WrCopy(p) ==
  /\ At(p, "wr_copy")
  /\ pagedir' = [pagedir EXCEPT ![p] =
       [n \in PageNums |->
          IF n \in RangePages(loc[p].buf, loc[p].size) /\ pagedir[p][n].frame # NULL
            THEN [pagedir[p][n] EXCEPT !.accessed = TRUE]
            ELSE pagedir[p][n]]]
  /\ file_lock' = NoThread
  /\ loc' = [loc EXCEPT ![p].todo =
                 ValidateList(USER_ESP + 4 * WORD, USER_ESP + 4 * WORD, WORD),
                        ![p].after = "rd_unpin"]
  /\ pc' = [pc EXCEPT ![p] = "vu"]
  /\ UNCHANGED <<spt, frame_table, pool, mem, swap_used, swapdata, filedata,
                 filelen, pin_lock, frame_table_lock, evict_lock, ops,
                 mmap_files, panic, lastw, acq, evB>>

\* The open calls process 1 makes, as <<file_name, length>>: a string that
\* crosses from its data page into its code page, one that ends with the
\* last byte of its data page, so that the NUL byte is the first byte of the
\* code page, and an empty string.
OpenCalls ==
  {<<EXE_PAGE * PGSIZE - 1, 2>>,
   <<EXE_PAGE * PGSIZE - 2, 2>>,
   <<EXE_PAGE * PGSIZE + 2 * WORD, 0>>}

\* The read and write calls process 1 makes beside them, as
\* <<fd, buffer, size>>: a read into and a write from a buffer that lies
\* across the two pages.
StrReadCalls == {<<STDIN_FILENO, EXE_PAGE * PGSIZE - 1, 2>>}

StrWriteCalls == {<<STDOUT_FILENO, EXE_PAGE * PGSIZE - 1, 2>>}

InitStr == InitWith(<<SegBoth, SegShort>>, 3, NoneStarted)

NextStr ==
  \/ \E p \in Procs : \/ Paging(p)
                       \/ Vu(p) \/ ShUnpin(p)
                       \/ RdBody(p) \/ RdCopy(p) \/ RdUnpin(p)
                       \/ StRd(p) \/ StBody(p) \/ StOpen(p) \/ StUnpin(p)
                       \/ WrBody(p) \/ WrCopy(p)
  \/ \E r \in OpenCalls : SysOpen(1, r[1], r[2])
  \/ \E r \in StrReadCalls : SysRead(1, r[1], r[2], r[3])
  \/ \E r \in StrWriteCalls : SysWrite(1, r[1], r[2], r[3])
  \/ Press(2)

SpecStr == InitStr /\ [][NextStr]_vars

(* ======================================================================= *)
(*                              properties                                 *)
(* ======================================================================= *)
\* The SPT entry a frame-table entry points to.
EntryOf(fte) == spt[fte.owner][fte.page]

\* Thread p has a victim in hand: get_victim_frame returned it and
\* evict_frame is running on it.
HasVictim(p) == pc[p] \in {"ev1", "ev2", "ev3"}

\* C1 -- pin safety: whenever get_victim_frame has returned a frame-table
\* entry (phase 1, phase 2 or the phase 3 fallback) and evict_frame runs on
\* it, the SPT entry of that frame has pinned = FALSE.
C1_PinSafety ==
  \A p \in Procs :
    HasVictim(p) => ~EntryOf(frame_table[loc[p].victim]).pinned

\* A victim was chosen behind a pinned frame the scanner passed over.
C1_Witness ==
  \E p \in Procs :
    /\ HasVictim(p)
    /\ \E i \in 1..(loc[p].victim - 1) : EntryOf(frame_table[i]).pinned

\* Thread p is tearing its table down (exit, destroy_spt, free_spte).
Exiting(p) ==
  \/ pc[p] \in {"exit", "ds_next", "dead"}
  \/ pc[p] \in {"fs_wb", "fs_del"}
  \/ pc[p] \in {"ff_rm", "ff_pf"} /\ loc[p].ffret = "fs_del"

\* Page n of process p is resident and pinned.
Stable(p, n) ==
  /\ Present(spt[p][n])
  /\ spt[p][n].frame # NULL
  /\ spt[p][n].pinned

\* Thread p is inside a read system call, after syscall_handler's and read's
\* validations returned and before syscall_handler's own unpin_buffer.
InsideRead(p) == pc[p] \in {"rd_body", "rd_copy", "rd_unpin", "sh_unpin"}

FtesOf(p, n) ==
  {i \in 1..Len(frame_table) :
     frame_table[i].owner = p /\ frame_table[i].page = n}

ResidencyExclusive(p, n) ==
  LET e == spt[p][n]
  IN  /\ (e.frame # NULL) <=> (Cardinality(FtesOf(p, n)) = 1)
      /\ e.frame # NULL =>
           /\ \A i \in FtesOf(p, n) : frame_table[i].frame = e.frame
           /\ ~e.is_in_swap

AtRest == \A p \in Procs : pc[p] \in {"user", "dead"}

C3_AsStated ==
  AtRest =>
    \A p \in Procs, n \in PageNums :
      Present(spt[p][n]) => ResidencyExclusive(p, n)

\* Some thread takes a step of victim selection or of evict_frame's detach.
EvictionStep ==
  \E q \in Procs : pc[q] \in {"gv1", "ev2"} /\ pc'[q] # pc[q]

\* The eviction engine cleans or detaches page n of process p, a resident
\* dirty MMAP page.
CleansDirtyMmap(p, n) ==
  /\ EvictionStep
  /\ spt[p][n].type = MMAP
  /\ spt[p][n].frame # NULL
  /\ pagedir[p][n].dirty
  /\ spt'[p][n].type = MMAP
  /\ ~pagedir'[p][n].dirty \/ spt'[p][n].frame = NULL

\* C4 -- dirty mmap data is never lost by the eviction engine: when victim
\* selection clears the dirty bit of a resident MMAP page, or evict_frame
\* makes a dirty MMAP page non-resident, the file holds the page's contents,
\* whichever thread does the eviction.
C4_AsStated ==
  [][\A p \in Procs, n \in PageNums :
       CleansDirtyMmap(p, n) =>
         filedata'[Inode(spt[p][n].file)][spt[p][n].ofs \div PGSIZE] =
           mem[spt[p][n].frame]]_vars

\* C5 -- round-trip swap: when install_load_page brings back a CODE entry
\* that evict_frame had swapped out with contents B, the frame holds B, the
\* entry has is_in_swap = FALSE and idx = BITMAP_ERROR, and its slot is free.
Reloads(p, n) ==
  /\ spt[p][n].type = CODE
  /\ spt[p][n].is_in_swap
  /\ spt[p][n].frame = NULL
  /\ spt'[p][n].frame # NULL

C5_RoundTrip ==
  [][\A p \in Procs, n \in PageNums :
       Reloads(p, n) =>
         /\ mem'[spt'[p][n].frame] = evB[p][n]
         /\ ~spt'[p][n].is_in_swap
         /\ spt'[p][n].idx = BITMAP_ERROR
         /\ spt[p][n].idx \notin swap_used']_vars

\* A page swapped out with contents that are not all zero is resident again.
C5_Witness ==
  \E p \in Procs, n \in PageNums :
    /\ spt[p][n].type = CODE
    /\ spt[p][n].frame # NULL
    /\ ~spt[p][n].is_in_swap
    /\ evB[p][n] \in Vals \ {0}
    /\ mem[spt[p][n].frame] = evB[p][n]

\* C6 -- mmap overlap rejection with full rollback: when create_spte_mmap
\* met a page that already has an entry, it returns (the kernel does not
\* fault on the way) and the process has entries for exactly the pages it
\* had entries for before the call.
C6_AsStated ==
  /\ panic # "null_deref"
  /\ \A p \in Procs :
       loc[p].fm_rollback /\ pc[p] = "sh_unpin" => SptPages(p) = loc[p].fm_pre

\* C7 -- teardown releases all resources: once destroy_spt of a process is
\* over, no frame-table entry points to its entries and every swap slot
\* still in use belongs to an entry of another process.
SlotsOf(p) == {spt[p][n].idx : n \in {m \in PageNums : spt[p][m].is_in_swap}}

C7_AsStated ==
  \A p \in Procs :
    pc[p] = "dead" =>
      /\ \A i \in 1..Len(frame_table) : frame_table[i].owner # p
      /\ swap_used \subseteq UNION {SlotsOf(q) : q \in Procs \ {p}}

\* The order in which the code takes the global locks.
Rank(l) == IF l = EVICT THEN 1 ELSE IF l = PIN THEN 2 ELSE IF l = FT THEN 3 ELSE 4

\* C8 as stated -- locks are taken in the order pin_lock, frame_table_lock,
\* evict_lock, file-system lock; pin_lock and frame_table_lock are never
\* taken by a thread that holds evict_lock or the file-system lock.
C8_AsStated ==
  \A e \in acq :
    /\ e[1] < e[2]
    /\ ~(e[1] \in {EVICT, FILESYS} /\ e[2] \in {PIN, FT})

\* The order the load path follows: evict_lock, pin_lock, frame_table_lock,
\* file-system lock.  A system call that faults while it holds the
\* file-system lock breaks it.
C8_LockOrder == \A e \in acq : Rank(e[1]) < Rank(e[2])

\* All three nested acquisitions of frame_alloc and a write-back under the
\* scan have happened.
C8_Witness ==
  {<<EVICT, PIN>>, <<EVICT, FT>>, <<PIN, FT>>, <<EVICT, FILESYS>>} \subseteq acq

\* Thread p is inside install_load_page between obtaining a frame and
\* setting spte->frame (or giving the frame back).
Loading(p) ==
  \/ pc[p] \in {"fa_pin", "fa_ftl", "gv1", "gv2", "ev1", "ev2", "ev3", "aft",
                "il_fin", "il_fail"}
  \/ pc[p] \in {"ff_rm", "ff_pf"} /\ loc[p].ffret = "il_fail"

\* C9 -- load serialization: at most one thread is inside install_load_page
\* at a time, and every victim selection and evict_frame step is done by the
\* thread that holds evict_lock.
C9_LoadSerialization ==
  /\ Cardinality({p \in Procs : Loading(p)}) <= 1
  /\ \A p \in Procs : Loading(p) => evict_lock = p

\* One thread is evicting while another waits at the door of its load.
C9_Witness ==
  \E p \in Procs, q \in Procs :
    pc[p] = "ev1" /\ pc[q] = "il_lock" /\ evict_lock = p

\* C10 -- read-only enforcement: when read has stored at least one page of
\* data into the buffer, no page of the buffer has a read-only FILE entry.
C10_AsStated ==
  \A p \in Procs :
    (~Exiting(p) \/ pc[p] = "exit") /\ loc[p].nwr > 0 =>
      \A n \in RangePages(loc[p].buf, loc[p].size) :
        ~(spt[p][n].type = FILE /\ ~spt[p][n].writable)

\* The addresses C11 says grow_stack refuses: more than MAX_STACK_SIZE below
\* PHYS_BASE, or at or above PHYS_BASE.
Refused(addr) == PHYS_BASE - addr > MAX_STACK_SIZE \/ addr >= PHYS_BASE

\* C11 -- stack-growth bound: when grow_stack returned true the address is
\* at most MAX_STACK_SIZE below PHYS_BASE; called with an address further
\* below, or at or above PHYS_BASE, it returns false and has inserted no
\* entry and taken no frame.
C11_AsStated ==
  [][\A p \in Procs :
       /\ pc'[p] = "gs_ok" => PHYS_BASE - loc'[p].addr <= MAX_STACK_SIZE
       /\ pc[p] = "gs" /\ pc'[p] # "gs" /\ Refused(loc[p].addr) =>
            pc'[p] = "exit" /\ spt' = spt /\ pool' = pool]_vars

\* C11, amended -- as C11, but the addresses refused are those more than
\* MAX_STACK_SIZE below PHYS_BASE and those strictly above PHYS_BASE: at
\* PHYS_BASE itself the unsigned difference is 0 and grow_stack goes ahead.
C11_StackBound ==
  [][\A p \in Procs :
       /\ pc'[p] = "gs_ok" => PHYS_BASE - loc'[p].addr <= MAX_STACK_SIZE
       /\ /\ pc[p] = "gs" /\ pc'[p] # "gs"
          /\ (PHYS_BASE - loc[p].addr > MAX_STACK_SIZE \/ loc[p].addr > PHYS_BASE)
          => pc'[p] = "exit" /\ spt' = spt /\ pool' = pool]_vars

\* grow_stack returned true for the lowest address it accepts, and the new
\* stack page is resident.
C11_Witness ==
  \E p \in Procs :
    /\ pc[p] = "gs_ok"
    /\ loc[p].addr = PHYS_BASE - MAX_STACK_SIZE
    /\ spt[p][pg_no(loc[p].addr)].frame # NULL


(* ----------------------- refused user addresses ------------------------ *)

\* Thread p is about to run valid_up on a user address that has no entry in
\* its table, is not mapped in its page directory and lies more than
\* STACK_HEURISTIC bytes below the stack pointer passed in.
FarBelowStack(p) ==
  /\ pc[p] = "vu"
  /\ loc[p].todo # <<>>
  /\ LET esp == Head(loc[p].todo)[1]
         ptr == Head(loc[p].todo)[2]
     IN /\ ptr # NULL
        /\ ptr < PHYS_BASE
        /\ ~Present(uvaddr_to_spt_entry(p, ptr))
        /\ pagedir[p][pg_no(ptr)] = NoPte
        /\ ptr < esp - STACK_HEURISTIC

\* C12: a valid_up call on a user address with no entry, not mapped and
\* more than STACK_HEURISTIC below the stack pointer ends in exit (NULL)
\* without touching any supplemental page table, and a thread that entered
\* exit with NULL dies with status -1.
C12_RefusedAddress ==
  [][\A p \in Procs :
       /\ FarBelowStack(p) /\ loc'[p] # loc[p]
            => /\ pc'[p] = "exit"
               /\ loc'[p].exit_esp = NULL
               /\ spt' = spt
       /\ pc[p] # "dead" /\ pc'[p] = "dead" /\ loc[p].exit_esp = NULL
            => loc'[p].status = 0 - 1]_vars

\* A thread whose read buffer was turned down by valid_up has died with
\* status -1, and the page of the buffer has no entry.
C12_Witness ==
  \E p \in Procs :
    /\ pc[p] = "dead"
    /\ loc[p].rejected
    /\ loc[p].status = 0 - 1
    /\ ~Present(spt[p][pg_no(PHYS_BASE - MAX_STACK_SIZE)])

(* ------------------------------- munmap -------------------------------- *)

\* Thread p is inside the free_spte_mmap call of munmap.
InUnmap(p) ==
  /\ ~loc[p].fm_rollback
  /\ \/ pc[p] = "fm_next"
     \/ pc[p] \in {"fs_wb", "ff_rm", "ff_pf", "fs_del"} /\ loc[p].ret = "fm_next"

\* The pages of the mapping thread p is unmapping.
UnmapPages(p) ==
  {n \in PageNums :
     /\ n >= loc[p].fm_first
     /\ n < loc[p].fm_first +
            (filelen[Inode(loc[p].fm_file)] + PGSIZE - 1) \div PGSIZE}

\* C13: munmap removes exactly the mapping and persists dirty pages: when
\* free_spte_mmap returns no page of the mapping has an entry, a page of the
\* mapping that is resident and dirty when free_spte reaches it is written
\* to the file at its offset, the file keeps its length and no entry
\* outside the mapping is removed.
C13_AsStated ==
  [][\A p \in Procs :
       /\ InUnmap(p) /\ pc[p] = "fm_next" /\ pc'[p] = "sh_unpin"
            => \A n \in UnmapPages(p) : ~Present(spt'[p][n])
       /\ InUnmap(p) /\ pc[p] = "fs_wb" /\ pc'[p] # "fs_wb"
                     /\ pagedir[p][loc[p].spte].dirty
            => LET e == spt[p][loc[p].spte]
               IN  filedata'[Inode(e.file)][e.ofs \div PGSIZE] = mem[e.frame]
       /\ InUnmap(p)
            => /\ filelen' = filelen
               /\ \A n \in SptIdx \ UnmapPages(p) :
                    Present(spt[p][n]) => Present(spt'[p][n])]_vars

(* --------------------------- key uniqueness ---------------------------- *)

\* C14: supplemental page table key uniqueness: after any sequence of
\* create_spte_code, create_spte_file, create_spte_mmap, grow_stack,
\* free_spte_mmap and destroy_spt a thread's table holds at most one element
\* per upage, and an operation on one thread's table leaves the tables of
\* the others as they were.
C14_KeyUniqueness ==
  [][\A p \in Procs :
       /\ \A x \in BagToSet(spt'[p]) :
            /\ CopiesIn(x, spt'[p]) = 1
            /\ hash_find(spt'[p], x.upage) = {x}
       /\ spt'[p] # spt[p] => \A q \in Procs \ {p} : spt'[q] = spt[q]]_vars

\* Both threads have an entry for page 1, and the table of thread 1 holds
\* MaxElems elements, among them one of a mapping.
C14_Witness ==
  /\ hash_find(spt[1], PGSIZE) # {}
  /\ hash_find(spt[2], PGSIZE) # {}
  /\ BagCardinality(spt[1]) = MaxElems
  /\ \E x \in BagToSet(spt[1]) : x.entry.type = MMAP

(* --------------------------- victim selection -------------------------- *)

\* The frame at position i of the frame table is unpinned, not accessed and
\* either not dirty or of kind CODE.
Phase1Eligible(i) ==
  LET fte == frame_table[i]
      pte == pagedir[fte.owner][fte.page]
  IN  /\ ~EntryOf(fte).pinned
      /\ ~pte.accessed
      /\ ~pte.dirty \/ EntryOf(fte).type = CODE

\* Phase 1 writes the frame at position i back and goes on.
Phase1Cleans(i) ==
  LET fte == frame_table[i]
  IN  /\ ~EntryOf(fte).pinned
      /\ EntryOf(fte).type # CODE
      /\ pagedir[fte.owner][fte.page].dirty

\* C15: phase 1 of get_victim_frame returns the first unpinned frame in
\* FIFO order that is not accessed and is either not dirty or of kind CODE;
\* a dirty, not accessed, unpinned CODE frame is returned and not passed
\* over.  (Checked for scans in which no frame before that one is written
\* back, so that the bits phase 1 reads are those of the state it starts in.)
C15_AsStated ==
  [][\A p \in Procs :
       pc[p] = "gv1" /\ pc'[p] \in {"ev1", "gv2"}
         => \A i \in 1..Len(frame_table) :
              /\ Phase1Eligible(i)
              /\ \A j \in 1..(i - 1) : ~Phase1Eligible(j) /\ ~Phase1Cleans(j)
              => pc'[p] = "ev1" /\ loc'[p].victim = i]_vars

(* ----------------------- executable-backed pages ----------------------- *)

\* Phase 1, started in this state, reaches the frame at position i with the
\* bits it has now and takes the write-back branch: no frame before it is
\* returned or written back.
Phase1WritesBack(i) ==
  /\ Phase1Cleans(i)
  /\ \A j \in 1..(i - 1) :
       LET fte == frame_table[j]
           pte == pagedir[fte.owner][fte.page]
       IN  /\ ~Phase1Cleans(j)
           /\ Skip(EntryOf(fte))
                \/ ~Phase1Victim(EntryOf(fte), pte.dirty, pte.accessed)

\* The files executables are loaded from keep their contents.
ExecutablesKept ==
  \A q \in Procs : filedata'[Inode(ExeFile(q))] = filedata[Inode(ExeFile(q))]

\* A resident FILE page leaves memory only promoted to CODE, its contents
\* copied to a swap slot.
LeavesBySwap ==
  /\ \A p \in Procs :
       pc[p] = "ev1" /\ pc'[p] = "ev2"
         /\ EntryOf(frame_table[loc[p].victim]).type = FILE
         => LET fte == frame_table[loc[p].victim]
                e == spt'[fte.owner][fte.page]
            IN  /\ e.type = CODE
                /\ e.is_in_swap
                /\ e.idx \in swap_used'
                /\ swapdata'[e.idx] = mem[fte.frame]
  /\ \A o \in Procs, n \in PageNums :
       spt[o][n].type = FILE /\ spt[o][n].frame # NULL /\ EvictionStep
         => spt'[o][n].frame # NULL

Unpinned == {i \in 1..Len(frame_table) : ~EntryOf(frame_table[i]).pinned}

\* Thread p is inside the do-while loop of frame_alloc.
InAllocLoop(p) == pc[p] \in {"gv1", "gv2", "ev1", "ev2", "ev3"}

\* The kernel panics raised inside the loop: the PANICs and failed ASSERTs
\* of frame_alloc, get_victim_frame, evict_frame and clear_frame_entry.
LoopPanics ==
  {"ft_empty", "no_victim", "assert_frame", "swap_full", "write_out",
   "double_free", "freed_spte"}

\* get_victim_frame finds a victim when there is an unpinned frame, and its
\* fallback is the first unpinned frame in FIFO order.
VictimFound(p) ==
  /\ pc[p] = "gv1" /\ pc'[p] = "ev1"
       => loc'[p].victim \in Unpinned
  /\ pc[p] = "gv2" /\ Unpinned # {} /\ (pc'[p] # "gv2" \/ panic' = "no_victim")
       => /\ panic' = panic
          /\ pc'[p] = "ev1"
          /\ loc'[p].victim \in Unpinned
          /\ Phase2(1, pagedir).victim = 0 => loc'[p].victim = Min(Unpinned)

\* The iteration that evicts a victim takes a frame from the pool and
\* releases frame_table_lock and pin_lock.
FrameObtained(p) ==
  pc[p] = "ev3" /\ pc'[p] # "ev3"
    => /\ pc'[p] = "aft"
       /\ loc'[p].frame \in Frames \ pool'
       /\ frame_table_lock' = NoThread
       /\ pin_lock' = NoThread

\* C17 as stated -- whenever the frame table holds an unpinned frame,
\* get_victim_frame returns an entry, the fallback being the first unpinned
\* frame in FIFO order, and the loop of frame_alloc goes on to obtain a
\* frame and to release frame_table_lock and pin_lock: no iteration ends in
\* a kernel panic.
C17_AsStated ==
  [][\A p \in Procs :
       /\ VictimFound(p)
       /\ FrameObtained(p)
       /\ InAllocLoop(p) /\ Unpinned # {} /\ panic' # panic
            => panic' \notin LoopPanics]_vars

\* C17 -- whenever the frame table holds an unpinned frame, get_victim_frame
\* returns an entry, the fallback being the first unpinned frame in FIFO
\* order; the iteration then either ends in a kernel panic (no swap slot
\* left, write-back refused, frame already free, entry freed by its owner
\* under the evictor) or takes a frame from the
\* pool and releases frame_table_lock and pin_lock, so the loop body runs
\* once.
C17_VictimAndFrame ==
  [][\A p \in Procs :
       /\ VictimFound(p)
       /\ FrameObtained(p)
       /\ InAllocLoop(p) /\ Unpinned # {} /\ panic' # panic
                          /\ panic' \in LoopPanics
            => /\ pc[p] \in {"ev1", "ev3"}
               /\ panic' \in {"swap_full", "write_out", "double_free",
                              "freed_spte"}]_vars

\* A thread has its frame from an eviction whose victim came from the
\* fallback, with other unpinned frames left behind it in the table, and
\* the two locks are free again.
C17_Witness ==
  \E p \in Procs :
    /\ pc[p] = "aft"
    /\ loc[p].phase = 3
    /\ loc[p].frame \in Frames
    /\ pin_lock = NoThread
    /\ frame_table_lock = NoThread
    /\ Unpinned # {}

\* Some thread runs the statement of evict_frame that zeroes the entry's frame
\* field.
DetachStep ==
  \E q \in Procs : pc[q] = "ev2" /\ pc'[q] = "ev3"

\* The frame table holds an entry for page n of process p.
HasFrameEntry(ft, p, n) ==
  \E i \in 1..Len(ft) : ft[i].owner = p /\ ft[i].page = n

\* C18 -- eviction detach ordering: when an eviction sets the frame field of
\* a page's entry to NULL, the page's hardware mapping has already been
\* cleared from the owner's page directory and its frame-table entry has
\* already been removed from the frame table.
C18_AsStated ==
  [][\A p \in Procs, n \in PageNums :
       /\ DetachStep
       /\ spt[p][n].frame # NULL
       /\ spt'[p][n].frame = NULL
       => /\ pagedir'[p][n] = NoPte
          /\ ~HasFrameEntry(frame_table', p, n)]_vars

\* Thread p returns false from install_load_file or install_load_swap.
LoadFails(p) == pc[p] = "il_fail" /\ pc'[p] # "il_fail"

\* C19 -- load failure rollback: when install_load_page returns false, the
\* entry's frame field is NULL, no frame-table entry refers to the entry,
\* the frame obtained for it is in the user pool, evict_lock is released,
\* and the entry's type, is_in_swap and idx are what they were when the load
\* started.
C19_AsStated ==
  [][\A p \in Procs :
       LoadFails(p)
         => LET n == loc[p].spte IN
            /\ spt'[p][n].frame = NULL
            /\ ~HasFrameEntry(frame_table', p, n)
            /\ loc[p].frame \in pool'
            /\ evict_lock' = NoThread
            /\ <<n, spt'[p][n].type, spt'[p][n].is_in_swap, spt'[p][n].idx>>
                 = loc[p].il_pre]_vars

\* read's unpin_buffer (buffer, size) runs in thread p.
UnpinStep(p) == pc[p] = "rd_unpin" /\ pc'[p] = "sh_unpin"

\* C20 -- unpin touches exactly its range: unpin_buffer (ptr, size) clears
\* pinned on every entry of the calling process whose page intersects
\* [ptr, ptr + size), size = 0 included, skips the pages that have no
\* entry, and leaves every other entry and every other field as it was.
C20_AsStated ==
  [][\A p \in Procs :
       UnpinStep(p)
         => \A n \in SptIdx :
              spt'[p][n] =
                IF n \in RangePages(loc[p].buf, loc[p].size) /\ Present(spt[p][n])
                  THEN [spt[p][n] EXCEPT !.pinned = FALSE]
                  ELSE spt[p][n]]_vars

(* ------------------------ pins and system calls ------------------------ *)
\* The pages of process p whose entry is pinned.
PinnedPages(p) == {n \in SptIdx : spt[p][n].pinned}

\* C21 -- no pin outlives its system call: when a process is back in user
\* mode after a system call (read, write, open, whose validate and validate_string
\* calls are the only ones that pin its pages), none of its entries is
\* pinned: not the pages of the buffer or of the string, not the page of
\* the string's NUL byte, not the stack pages that hold the arguments.
C21_NoPinOutlives ==
  \A p \in Procs : pc[p] = "user" => PinnedPages(p) = {}

\* Process 1 is back in user mode after its system calls: the stack page
\* that validation grew pinned, and the two pages its strings and buffers
\* lie in, are resident and no longer pinned.
C21_Witness ==
  /\ pc[1] = "user"
  /\ ops[1] = MaxOps
  /\ \A n \in {EXE_PAGE - 1, EXE_PAGE, pg_no(USER_ESP)} :
       /\ Present(spt[1][n])
       /\ spt[1][n].frame # NULL
       /\ ~spt[1][n].pinned

\* C22 -- an evictable frame always exists when one is needed: whenever a
\* thread is in frame_alloc's loop with the pool exhausted, about to run or
\* running get_victim_frame on a frame table that is not empty, at least one
\* frame of the table belongs to an unpinned entry, and the assertion
\* fte != NULL never fails.
C22_AsStated ==
  /\ \A p \in Procs :
       pc[p] \in {"gv1", "gv2"} /\ frame_table # <<>> => Unpinned # {}
  /\ panic # "no_victim"

(* ------------------------- teardown and eviction ------------------------ *)
\* No frame has been handed to palloc_free_page while it was free already.
FreedOnce == panic # "double_free"

\* The entry of the victim that evict_frame and clear_frame_entry read
\* through fte->spte has not been freed.
VictimEntryLive ==
  \A p \in Procs :
    HasVictim(p) => Present(EntryOf(frame_table[loc[p].victim]))

\* C23 -- teardown cannot race eviction: while one process runs free_spte or
\* destroy_spt and another runs victim selection and evict_frame, no frame
\* is returned to the pool twice, and eviction never reads a frame-table
\* entry whose spte has been freed.
C23_AsStated == FreedOnce /\ VictimEntryLive

(* ----------------------- stores during an eviction ---------------------- *)
\* evict_frame has copied page n of process p to a swap slot and has not
\* yet cleared its mapping.
CopiedOut(p, n) ==
  \E q \in Procs :
    /\ pc[q] \in {"ev2", "ev3"}
    /\ frame_table[loc[q].victim].owner = p
    /\ frame_table[loc[q].victim].page = n
    /\ spt[p][n].is_in_swap

\* Process p stores into page n through its mapping.
StoreStep(p, n) ==
  /\ pagedir[p][n].frame # NULL
  /\ mem'[pagedir[p][n].frame] # mem[pagedir[p][n].frame]
  /\ lastw'[p][n] # lastw[p][n]
  /\ lastw'[p][n] = mem'[pagedir[p][n].frame]

\* C24 -- no write is lost to a concurrent eviction: the owner of a CODE or
\* FILE page does not store into it after evict_frame copied it to its swap
\* slot and before the mapping is cleared, and the contents the next load
\* restores are the last contents the owner stored while the page was mapped.
C24_AsStated ==
  [][\A p \in Procs, n \in PageNums :
       /\ CopiedOut(p, n) => ~StoreStep(p, n)
       /\ Reloads(p, n) /\ lastw[p][n] # UNINIT
            => mem'[spt'[p][n].frame] = lastw[p][n]]_vars

(* --------------------------- read-only pages ---------------------------- *)
\* Page n of process p has the entry create_spte_file gave it with
\* writable = false; eviction may have turned its type from FILE into CODE.
RegisteredReadOnly(p, n) ==
  /\ Present(spt[p][n])
  /\ spt[p][n].type \in {FILE, CODE}
  /\ spt[p][n].file # UNINIT
  /\ ~spt[p][n].writable

\* C25 -- read-only pages stay read-only: a page create_spte_file registered
\* with writable = false is never mapped with write permission, and a read
\* from a file into it never gets past is_writable.
C25_AsStated ==
  \A p \in Procs :
    /\ \A n \in PageNums :
         RegisteredReadOnly(p, n) /\ pagedir[p][n].frame # NULL
           => ~pagedir[p][n].writable
    /\ pc[p] = "rd_copy" /\ loc[p].fd # STDIN_FILENO
         => ~RegisteredReadOnly(p, pg_no(loc[p].buf))

(* ------------------------------ lock waits ------------------------------ *)
\* The thread that holds lock l, NoThread when it is free.
HolderOf(l) ==
  IF l = PIN THEN pin_lock
  ELSE IF l = FT THEN frame_table_lock
  ELSE IF l = EVICT THEN evict_lock
  ELSE file_lock

\* write_to_disk, run by thread p on page n of process o, goes as far as
\* lock_acquire (&file_lock).
WritesToDisk(p, o, n) == write_to_disk(p, spt[o][n], n, pagedir, filedata).locked

\* The lock the next statement of thread p acquires: the lock_acquire call
\* the thread is at, if it is at one.
Wants(p) ==
  IF pc[p] = "il_lock" THEN {EVICT}
  ELSE IF pc[p] = "fa_pin" THEN {FrameAllocOrder[1]}
  ELSE IF pc[p] = "fa_ftl" THEN {FrameAllocOrder[2]}
  ELSE IF pc[p] \in {"aft", "ff_rm"} THEN {FT}
  ELSE IF pc[p] \in {"sh_unpin", "rd_unpin"} THEN {PIN}
  ELSE IF pc[p] \in {"st_body", "wr_body"} THEN {FILESYS}
  ELSE IF pc[p] = "gv1"
    THEN IF frame_table # <<>> /\ Phase1(p, 1, pagedir, filedata, FALSE).locked
           THEN {FILESYS} ELSE {}
  ELSE IF pc[p] = "ev1"
    THEN LET fte == frame_table[loc[p].victim]
             e == EntryOf(fte)
         IN  IF /\ e.frame # NULL
                /\ e.type = MMAP
                /\ pagedir[fte.owner][fte.page].dirty
                /\ WritesToDisk(p, fte.owner, fte.page)
               THEN {FILESYS} ELSE {}
  ELSE IF pc[p] = "il_fin"
    THEN IF /\ loc[p].spte \in PageNums
            /\ spt[p][loc[p].spte].type \in {FILE, MMAP}
            /\ file_lock # p
           THEN {FILESYS} ELSE {}
  ELSE IF pc[p] = "fs_wb"
    THEN IF WritesBack(spt[p][loc[p].spte]) /\ WritesToDisk(p, p, loc[p].spte)
           THEN {FILESYS} ELSE {}
  ELSE IF pc[p] = "exit"
    THEN IF HasOpenFile(p) /\ file_lock # p THEN {FILESYS} ELSE {}
  ELSE IF pc[p] = "ds_next"
    THEN IF SptPages(p) = {} /\ file_lock # p THEN {FILESYS} ELSE {}
  ELSE IF pc[p] = "gs"
    THEN IF StackTooBig(loc[p].addr) THEN {} ELSE {PIN}
  ELSE IF pc[p] = "vu"
    THEN IF loc[p].todo = <<>> THEN {}
         ELSE LET ptr == Head(loc[p].todo)[2] IN
              IF /\ ptr # NULL
                 /\ is_user_vaddr(ptr)
                 /\ Present(uvaddr_to_spt_entry(p, ptr))
                THEN {PIN} ELSE {}
  ELSE IF pc[p] = "st_unpin"
    THEN IF pagedir[p][pg_no(loc[p].buf + loc[p].size)].frame = NULL
           THEN {} ELSE {PIN}
  ELSE IF pc[p] = "rd_body"
    THEN IF /\ loc[p].fd # STDIN_FILENO
            /\ ~is_writable(uvaddr_to_spt_entry(p, loc[p].buf))
           THEN {} ELSE {FILESYS}
  ELSE IF pc[p] = "mm_body"
    THEN IF is_valid_page(loc[p].buf) THEN {FILESYS} ELSE {}
  ELSE {}

\* Thread p is blocked in lock_acquire on a lock that thread q holds.
WaitsFor(p, q) == \E l \in Wants(p) : HolderOf(l) = q

\* A set of threads each of which waits for a lock held by a thread of the
\* set: as a thread waits for one lock at a time, the set contains a cycle.
WaitCycle(S) == S # {} /\ \A p \in S : \E q \in S : WaitsFor(p, q)

\* C26 -- deadlock freedom: in no reachable state is there a cycle of threads
\* each waiting for pin_lock, frame_table_lock, evict_lock or file_lock held
\* by the next one.
C26_AsStated == panic = "none" => \A S \in SUBSET Procs : ~WaitCycle(S)

====
